---- MODULE Spec2Model ----
(***************************************************************************)
(* Sort planning and progressive tree population of mtg-sorter-helper.     *)
(*                                                                         *)
(*   Spec        NavigableTreeWidget's progressive population (the timer   *)
(*               driven chunk loop), its cancellation and the cleanup of   *)
(*               the widget that owns the tree.                            *)
(*   SpecPlan    SorterPlanner.create_sorting_plan over a card list whose  *)
(*               sorted counts are changed by the tab's handlers.          *)
(*   SpecProgress the handlers that write sorted_count: toggles, marks,    *)
(*               reset, import and project load.                           *)
(*   SpecTab     a view of the sorter tab (a tree, or a SetSorterView with *)
(*               its tree), the handlers that change what it shows and the *)
(*               refreshes they schedule.                                  *)
(*   SpecRefresh a tree view under refreshes and navigation, with the      *)
(*               timers of the event loop firing fairly.                   *)
(*   SpecCheck   a tree whose nodes hold cards, populated and refreshed    *)
(*               while check boxes are used.                               *)
(*   SpecValidate SorterPlanner.validate_sort_order.                       *)
(*   SpecImport  CsvImportWorker.process and cancel().                     *)
(*   SpecPath    SorterPlanner.get_cards_at_path over the trees of plans.  *)
(*   SpecLetter  SorterPlanner.create_set_letter_plan (simple, grouped and *)
(*               optimal letter piles).                                    *)
(*   SpecPack    the same calls on cards owned in larger quantities.       *)
(*   SpecGrid    SetSorterView.generate_plan's own letter grouping, next   *)
(*               to the planner's on the same cards.                       *)
(***************************************************************************)
EXTENDS Integers, Sequences, FiniteSets, TLC

VARIABLES
    \* ---- NavigableTreeWidget (ui/custom_widgets.py) ----
    is_destroyed,       \* NavigableTreeWidget._is_destroyed
    populate_timer,     \* _populate_timer.isActive()
    runs,               \* every _populate_state dict ever built; the last one is the current one
    items,              \* the elements of the tree, in creation or sorted order: [run, node, parent]
    \* ---- the widget of results_stack that owns the tree ----
    owner,              \* "tree": the tree is the stack widget; "view": a SetSorterView holds it
    view_is_destroyed,  \* SetSorterView._is_destroyed
    removed,            \* the stack widget was removed by navigation (cleanup + deleteLater)
    deleted,            \* the deferred delete has run
    \* ---- SorterPlanner.create_sorting_plan ----
    all_cards,          \* ManaBoxSorterTab.all_cards: sequence of Card records
    sort_order,         \* the criteria of the last create_sorting_plan call
    plan,               \* its result: a sequence of SortGroup records
    plan_error,         \* <<>>, or the ValueError the call raised
    plan_called,        \* create_sorting_plan was called on all_cards and has ended
    \* ---- SorterPlanner.get_cards_at_path ----
    current_path,       \* the path of the last get_cards_at_path call
    path_outcome,       \* "none" before a call, else "returned" | "AttributeError"
    cards_at_path,      \* the list the call returned
    \* ---- SorterPlanner.create_set_letter_plan ----
    set_cards,          \* the cards of the set being sorted by letter
    policy,             \* "none" before a call, else "simple" | "grouped" | "optimal"
    threshold,          \* the threshold of the last call
    letter_groups,      \* the SortGroups (piles) returned
    letter_mapping,     \* the mapping returned
    \* ---- ManaBoxSorterTab and SetSorterView (ui/sorter_tab.py, ui/set_sorter_view.py) ----
    is_refreshing,      \* ManaBoxSorterTab._is_refreshing
    is_generating,      \* SetSorterView._is_generating
    refresh_pending,    \* a QTimer.singleShot(_refresh_current_view) has not fired yet
    regenerate_pending, \* a QTimer.singleShot(_safe_regenerate_plan) has not fired yet
    completion_pending, \* a QTimer.singleShot(_handle_set_completion) has not fired yet
    show_sorted,        \* show_sorted_check.isChecked()
    generated_from,     \* the cards and the show_sorted the nodes of the view were computed from
    \* ---- SetSorterView.generate_plan's own letter grouping (ui/set_sorter_view.py) ----
    view_policy,        \* "none" before a call, else the policy the check boxes select
    view_threshold,     \* int(group_threshold_edit.text()), or 20
    view_mapping,       \* the mapping generate_plan files the cards under
    \* ---- the nodes handed to _populate_tree_progressively ----
    node_cards,         \* node.cards of each node, as indices into all_cards
    \* ---- SorterPlanner.validate_sort_order ----
    validate_order,     \* the sort_order of the last validate_sort_order call
    validate_result,    \* what the call did: [outcome, is_valid, message]
    \* ---- CsvImportWorker (workers/threads.py) ----
    csv_rows,           \* the rows csv.DictReader yields for csv_path
    worker_pc,          \* where process() is: "idle" | "rows" | "ids" | "done"
    row_num,            \* rows read so far (total_rows)
    card_quantities,    \* the dict card_quantities; its keys are the set scryfall_ids
    unique_ids,         \* list(scryfall_ids)
    id_index,           \* identifiers looked up so far
    import_cards,       \* the list cards built by the second loop
    is_cancelled,       \* CsvImportWorker._is_cancelled
    emitted             \* the finished and error signals emitted, in order

engineVars == <<is_destroyed, populate_timer, runs, items, owner, view_is_destroyed, removed, deleted>>
planVars   == <<all_cards, sort_order, plan, plan_error, plan_called>>
pathVars   == <<current_path, path_outcome, cards_at_path>>
letterVars == <<set_cards, policy, threshold, letter_groups, letter_mapping>>
tabVars    == <<is_refreshing, is_generating, refresh_pending, regenerate_pending,
                completion_pending, show_sorted, generated_from>>
pileVars   == <<view_policy, view_threshold, view_mapping>>
nodeVars   == <<node_cards>>
validateVars == <<validate_order, validate_result>>
importVars == <<csv_rows, worker_pc, row_num, card_quantities, unique_ids, id_index, import_cards,
                 is_cancelled, emitted>>
restVars   == <<pileVars, nodeVars, validateVars, importVars>>
vars       == <<engineVars, planVars, pathVars, letterVars, tabVars, restVars>>

Min(a, b) == IF a <= b THEN a ELSE b
Max(a, b) == IF a >= b THEN a ELSE b

RECURSIVE SumSeq(_)
SumSeq(s) == IF s = <<>> THEN 0 ELSE Head(s) + SumSeq(Tail(s))

\* The elements of sequence s, as a set.
Range(s) == {s[i] : i \in DOMAIN s}

(***************************************************************************)
(* Bounds of the model.                                                    *)
(***************************************************************************)
MaxRuns  == 2      \* populate calls on one tree
MaxNodes == 3      \* length of a node list
MaxChunk == 2      \* chunk_size ranges over 1..MaxChunk

(***************************************************************************)
(* Progressive population: ui/custom_widgets.py                            *)
(***************************************************************************)
\* The node lists handed to a population: n distinct SortGroups, named by their
\* sort key, in an order that the final sort may or may not change.
NodeLists == {[i \in 1..n |-> i] : n \in 0..MaxNodes} \cup {[i \in 1..n |-> n + 1 - i] : n \in 2..MaxNodes}

\* One entry of a run's call log.
OnItem(n)  == [ev |-> "on_item", node |-> n]
SortEv     == [ev |-> "sort", node |-> 0]
OnFinished == [ev |-> "on_finished", node |-> 0]
Tick       == [ev |-> "tick", node |-> 0]      \* a timeout of the timer found the run active
Idle       == [ev |-> "idle", node |-> 0]      \* state['active'] = False after the last chunk

\* invisibleRootItem(), the parent_item of a population of the top level; any
\* other parent_item is an element of the tree, named by its run and node.
Root == [run |-> 0, node |-> 0]

\* The dict built in __init__: no nodes, not active, no callback.
InitialPopulateState ==
    [nodes |-> <<>>, parent_item |-> Root, chunk_size |-> 100, on_finished |-> FALSE,
     closure |-> "None", current_index |-> 0,
     active |-> FALSE, started |-> FALSE, cancelled |-> FALSE, given |-> <<>>, log |-> <<>>]

cur == Len(runs)
populate_state == runs[cur]

\* History read off a run's log.
Done(r)     == SelectSeq(runs[r].log, LAMBDA e : e.ev = "on_item")
DoneNodes(r) == [i \in 1..Len(Done(r)) |-> Done(r)[i].node]
FinCount(r) == Len(SelectSeq(runs[r].log, LAMBDA e : e.ev = "on_finished"))

\* QTreeWidget.sortByColumn: a stable insertion sort of the elements by name.
RECURSIVE InsertItem(_, _)
InsertItem(sorted, it) ==
    IF sorted = <<>> THEN <<it>>
    ELSE IF it.node < Head(sorted).node THEN <<it>> \o sorted
    ELSE <<Head(sorted)>> \o InsertItem(Tail(sorted), it)

RECURSIVE SortItems(_)
SortItems(s) == IF s = <<>> THEN <<>> ELSE InsertItem(SortItems(SubSeq(s, 1, Len(s) - 1)), s[Len(s)])

\* tree.clear() by the caller, or no such call, before a population.
ClearTreeKeepsItems(cleared, elements) == elements
ClearTree(cleared, elements) == IF cleared THEN <<>> ELSE elements

\* What _populate_tree_progressively does to the dict of a population in flight
\* (the timer is stopped by the caller of this operator).
CancelInFlightKeepsActive(st) == st
CancelInFlight(st) ==
    IF st.active THEN [st EXCEPT !.active = FALSE, !.cancelled = TRUE] ELSE st

\* _populate_tree_progressively(nodes, parent_item, chunk_size=chunk, on_finished):
\* cb tells whether on_finished is a callable and closure which one it is; cleared
\* tells whether the caller emptied the tree just before the call.
PopulateTreeProgressively(nodes, parent_item, chunk, cb, closure, cleared) ==
    /\ cur <= MaxRuns
    /\ ~removed
    /\ IF is_destroyed
       THEN UNCHANGED <<runs, populate_timer, items>>
       ELSE /\ runs' = [r \in 1..(cur + 1) |->
                          IF r < cur THEN runs[r]
                          ELSE IF r = cur THEN CancelInFlight(runs[r])
                          ELSE [nodes |-> nodes, parent_item |-> parent_item,
                                chunk_size |-> chunk, on_finished |-> cb, closure |-> closure,
                                current_index |-> 0, active |-> TRUE, started |-> TRUE,
                                cancelled |-> FALSE, given |-> nodes, log |-> <<>>]]
            /\ populate_timer' = TRUE
            /\ items' = ClearTree(cleared, items)
    /\ UNCHANGED <<is_destroyed, owner, view_is_destroyed, removed, deleted>>
    /\ UNCHANGED <<planVars, pathVars, restVars, letterVars>>

\* Some caller starts a population of the top level, with or without a callback
\* and with or without tree.clear() before the call; what the callback does is
\* left open.
Populate ==
    \E nodes \in NodeLists, chunk \in 1..MaxChunk, cb \in BOOLEAN, cleared \in BOOLEAN :
        /\ owner = "view" => ~view_is_destroyed
        /\ cleared => cb
        /\ PopulateTreeProgressively(nodes, Root, chunk, cb,
                                     IF cb THEN "on_finished" ELSE "None", cleared)
        /\ UNCHANGED tabVars

\* _finalize_population, as called at the end of _process_next_chunk: the log
\* entries it adds and the element order it leaves.
FinalizeLogCallbackFirst(st) ==
    IF is_destroyed THEN <<>>
    ELSE (IF st.on_finished THEN <<OnFinished>> ELSE <<>>) \o <<SortEv>>
FinalizeLog(st) ==
    IF is_destroyed THEN <<>>
    ELSE <<SortEv>> \o (IF st.on_finished THEN <<OnFinished>> ELSE <<>>)

\* chunk_end = min(current_index + chunk_size, len(nodes))
ChunkEndWholeList(current_index, chunk_size, n) == n
ChunkEndOneNode(current_index, chunk_size, n) == Min(current_index + 1, n)
ChunkEnd(current_index, chunk_size, n) == Min(current_index + chunk_size, n)

\* state['current_index'] = chunk_end
NextIndexSkipsOne(chunk_end) == chunk_end + 1
NextIndex(chunk_end) == chunk_end

\* if chunk_end >= len(nodes): the chunk just processed was the last one
IsLastChunkAlways(chunk_end, n) == TRUE
IsLastChunk(chunk_end, n) == chunk_end >= n

\* The on_population_finished closures of _refresh_current_view, generate_plan
\* and _populate_item_children, as far as the flags of the tab and the view go.
OnPopulationFinished(closure) ==
    /\ is_refreshing' = IF closure = "refresh" THEN FALSE ELSE is_refreshing
    /\ is_generating' = IF closure = "generate_plan" THEN FALSE ELSE is_generating

\* if hasattr(node, 'cards') and node.cards: all_sorted = all((c.is_fully_sorted
\* for c in node.cards)); the element is checked if all_sorted, unchecked if not,
\* and has no check state (reads as unchecked) when the node has no cards.
\* Card.is_fully_sorted is sorted_count >= quantity.
CheckedIfAnySorted(node) ==
    /\ node_cards[node] # <<>>
    /\ \E k \in 1..Len(node_cards[node]) :
           all_cards[node_cards[node][k]].sorted_count >= all_cards[node_cards[node][k]].quantity
Checked(node) ==
    /\ node_cards[node] # <<>>
    /\ \A k \in 1..Len(node_cards[node]) :
           all_cards[node_cards[node][k]].sorted_count >= all_cards[node_cards[node][k]].quantity

\* if not show_sorted: tree_item.setHidden(True), in the all_sorted branch; the
\* check box is the show_sorted_check of the tab the tree was added to.
Hidden(node) == Checked(node) /\ ~show_sorted

\* _process_next_chunk: one timeout of _populate_timer.
ProcessNextChunk ==
    /\ populate_timer
    /\ ~deleted
    /\ IF is_destroyed \/ ~populate_state.active
       THEN /\ populate_timer' = FALSE
            /\ UNCHANGED <<runs, items, is_refreshing, is_generating>>
       ELSE LET st        == populate_state
                chunk_end == ChunkEnd(st.current_index, st.chunk_size, Len(st.nodes))
                chunk     == SubSeq(st.nodes, st.current_index + 1, chunk_end)
                made      == [i \in 1..Len(chunk) |->
                                [run |-> cur, node |-> chunk[i], parent |-> st.parent_item,
                                 checked |-> Checked(chunk[i]), hidden |-> Hidden(chunk[i])]]
                itemlog   == [i \in 1..Len(chunk) |-> OnItem(chunk[i])]
                last      == IsLastChunk(chunk_end, Len(st.nodes))
            IN  /\ runs' = [runs EXCEPT ![cur] =
                              [st EXCEPT !.current_index = NextIndex(chunk_end),
                                         !.active = IF last THEN FALSE ELSE TRUE,
                                         !.log = st.log \o <<Tick>> \o itemlog \o
                                                 (IF last THEN <<Idle>> \o FinalizeLog(st)
                                                  ELSE <<>>)]]
                /\ populate_timer' = ~last
                /\ items' = IF last /\ ~is_destroyed
                            THEN SortItems(items \o made)
                            ELSE items \o made
                /\ IF last /\ ~is_destroyed /\ st.on_finished
                   THEN OnPopulationFinished(st.closure)
                   ELSE UNCHANGED <<is_refreshing, is_generating>>
    /\ UNCHANGED <<is_destroyed, owner, view_is_destroyed, removed, deleted>>
    /\ UNCHANGED <<refresh_pending, regenerate_pending, completion_pending, show_sorted,
                   generated_from>>
    /\ UNCHANGED <<planVars, pathVars, restVars, letterVars>>

\* NavigableTreeWidget.cleanup
TreeCleanupEffect ==
    IF is_destroyed
    THEN UNCHANGED <<is_destroyed, populate_timer, runs>>
    ELSE /\ is_destroyed' = TRUE
         /\ populate_timer' = FALSE
         /\ runs' = [runs EXCEPT ![cur] =
                        [@ EXCEPT !.active = FALSE,
                                  !.cancelled = @ \/ runs[cur].active,
                                  !.nodes = <<>>]]

\* SetSorterView.cleanup: marks the view destroyed, blocks the tree's signals and
\* drops the chart; the tree's own cleanup is not called.
ViewCleanupEffect ==
    /\ view_is_destroyed' = TRUE
    /\ UNCHANGED <<is_destroyed, populate_timer, runs>>

\* navigate_to_level / _safe_clear_stack: the stack widget is removed, its cleanup()
\* is called and deleteLater() is posted.
NavigateToLevelEffect ==
    /\ removed' = TRUE
    /\ IF owner = "view"
       THEN ViewCleanupEffect
       ELSE TreeCleanupEffect /\ UNCHANGED view_is_destroyed
    /\ UNCHANGED <<items, owner, deleted>>

NavigateRemove ==
    /\ ~removed
    /\ NavigateToLevelEffect
    /\ UNCHANGED <<planVars, pathVars, restVars, letterVars, tabVars>>

\* The event loop handles the DeferredDelete posted by deleteLater(): the widget
\* and its children are gone and no slot of theirs is called any more.
DeferredDelete ==
    /\ removed
    /\ ~deleted
    /\ deleted' = TRUE
    /\ UNCHANGED <<is_destroyed, populate_timer, runs, items, owner, view_is_destroyed, removed>>
    /\ UNCHANGED <<planVars, pathVars, restVars, letterVars, tabVars>>

IdlePath   == /\ current_path = <<>> /\ path_outcome = "none" /\ cards_at_path = <<>>
IdlePlan   == /\ all_cards = <<>> /\ sort_order = <<>> /\ plan = <<>> /\ plan_error = <<>>
              /\ plan_called = FALSE
              /\ IdlePath
IdleLetter == /\ set_cards = <<>> /\ policy = "none" /\ threshold = 0
              /\ letter_groups = <<>> /\ letter_mapping = <<>>
IdleTab    == /\ is_refreshing = FALSE /\ is_generating = FALSE
              /\ refresh_pending = FALSE /\ regenerate_pending = FALSE
              /\ completion_pending = FALSE /\ show_sorted = FALSE
              /\ generated_from = [cards |-> <<>>, show_sorted |-> FALSE]

IdlePile   == /\ view_policy = "none" /\ view_threshold = 0 /\ view_mapping = <<>>
IdleNodes  == node_cards = [n \in 1..MaxNodes |-> <<>>]
IdleValidate == /\ validate_order = <<>>
                /\ validate_result = [outcome |-> "none", is_valid |-> FALSE, message |-> <<>>]
IdleImport == /\ csv_rows = <<>> /\ worker_pc = "idle" /\ row_num = 0
              /\ card_quantities = <<>> /\ unique_ids = <<>> /\ id_index = 0
              /\ import_cards = <<>> /\ is_cancelled = FALSE /\ emitted = <<>>
IdleRest   == IdlePile /\ IdleNodes /\ IdleValidate /\ IdleImport

Init ==
    /\ IdleRest
    /\ is_destroyed = FALSE
    /\ populate_timer = FALSE
    /\ runs = <<InitialPopulateState>>
    /\ items = <<>>
    /\ owner \in {"tree", "view"}
    /\ view_is_destroyed = FALSE
    /\ removed = FALSE
    /\ deleted = FALSE
    /\ IdlePlan
    /\ IdleLetter
    /\ IdleTab

Next ==
    \/ Populate
    \/ ProcessNextChunk
    \/ NavigateRemove
    \/ DeferredDelete

Spec == Init /\ [][Next]_vars


(***************************************************************************)
(* Cards: core/models.py                                                   *)
(***************************************************************************)
MaxQty == 2        \* quantity ranges over 1..MaxQty

\* string.ascii_uppercase and string.ascii_lowercase, one character per element.
Letters == <<"A", "B", "C", "D", "E", "F", "G", "H", "I", "J", "K", "L", "M",
             "N", "O", "P", "Q", "R", "S", "T", "U", "V", "W", "X", "Y", "Z">>
LowerLetters == <<"a", "b", "c", "d", "e", "f", "g", "h", "i", "j", "k", "l", "m",
                  "n", "o", "p", "q", "r", "s", "t", "u", "v", "w", "x", "y", "z">>

\* str.upper() of one character.
Upper(c) ==
    IF \E i \in 1..26 : LowerLetters[i] = c
    THEN Letters[CHOOSE i \in 1..26 : LowerLetters[i] = c]
    ELSE c

\* Position of an upper-case letter in the alphabet (0 for any other character).
LetterIndex(c) ==
    IF \E i \in 1..26 : Letters[i] = c THEN CHOOSE i \in 1..26 : Letters[i] = c ELSE 0

\* The name 'N/A' that Card.from_scryfall_dict gives a card without a name.
NameNA == <<"N", "/", "A">>

\* The card data the lists are drawn from: a name is a sequence of characters, a
\* type line a sequence of words, a color identity a list of color letters.
CardPool == <<
    [scryfall_id |-> "id1", name |-> <<"a", "z", "u", "s", "a">>, set_name |-> "LEA",
     rarity |-> "rare", type_line |-> <<"Legendary", "Creature", "-", "Human">>,
     color_identity |-> <<"G">>, condition |-> "Near Mint"],
    [scryfall_id |-> "id2", name |-> <<"B", "r", "a", "g", "o">>, set_name |-> "LEA",
     rarity |-> "Mythic", type_line |-> <<"Creature">>,
     color_identity |-> <<"W", "U">>, condition |-> "N/A"],
    [scryfall_id |-> "id3", name |-> NameNA, set_name |-> "N/A",
     rarity |-> "N/A", type_line |-> <<>>,
     color_identity |-> <<>>, condition |-> "Damaged"],
    [scryfall_id |-> "id4", name |-> <<"b", "o", "p">>, set_name |-> "N/A",
     rarity |-> "common", type_line |-> <<"N/A">>,
     color_identity |-> <<"C">>, condition |-> "N/A"] >>

\* Card(...): a pool entry owned quantity times, sorted_count of them sorted.
MakeCard(p, quantity, sorted_count) ==
    [scryfall_id |-> CardPool[p].scryfall_id, name |-> CardPool[p].name,
     set_name |-> CardPool[p].set_name, rarity |-> CardPool[p].rarity,
     type_line |-> CardPool[p].type_line, color_identity |-> CardPool[p].color_identity,
     condition |-> CardPool[p].condition,
     quantity |-> quantity, sorted_count |-> sorted_count]

\* Card.unsorted_quantity
UnsortedQuantity(card) == Max(0, card.quantity - card.sorted_count)

\* Card.is_fully_sorted
IsFullySorted(card) == card.sorted_count >= card.quantity

(***************************************************************************)
(* Grouping criteria: core/sorter_planner.py                               *)
(* A group key is a sequence of strings (a name: its characters).          *)
(***************************************************************************)
SortCriteria == {"Set", "Color Identity", "Rarity", "Type Line", "First Letter", "Name",
                 "Condition", "Commander Staple"}

\* str.lower() on the rarity and condition values that occur.
LowerWord(w) ==
    CASE w = "Mythic" -> "mythic"
      [] w = "Near Mint" -> "near mint"
      [] w = "Damaged" -> "damaged"
      [] w = "N/A" -> "n/a"
      [] OTHER -> w

SortBySet(card) == <<card.set_name>>

\* sorted(colors), by insertion into the alphabetical order of the letters.
RECURSIVE InsertLetter(_, _)
InsertLetter(sorted, c) ==
    IF sorted = <<>> THEN <<c>>
    ELSE IF LetterIndex(c) < LetterIndex(Head(sorted)) THEN <<c>> \o sorted
    ELSE <<Head(sorted)>> \o InsertLetter(Tail(sorted), c)

RECURSIVE SortedLetters(_)
SortedLetters(s) ==
    IF s = <<>> THEN <<>> ELSE InsertLetter(SortedLetters(SubSeq(s, 1, Len(s) - 1)), s[Len(s)])

SortByColorIdentity(card) ==
    LET colors == card.color_identity
    IN  IF colors = <<>> THEN <<"Colorless">>
        ELSE IF Len(colors) = 1
             THEN CASE colors[1] = "W" -> <<"White">>
                    [] colors[1] = "U" -> <<"Blue">>
                    [] colors[1] = "B" -> <<"Black">>
                    [] colors[1] = "R" -> <<"Red">>
                    [] colors[1] = "G" -> <<"Green">>
                    [] OTHER -> <<"Unknown">>
             ELSE <<"Multicolor">> \o SortedLetters(colors)

SortByRarity(card) ==
    LET r == LowerWord(card.rarity)
    IN  CASE r = "mythic" -> <<"A-Mythic">>
          [] r = "rare" -> <<"B-Rare">>
          [] r = "uncommon" -> <<"C-Uncommon">>
          [] r = "common" -> <<"D-Common">>
          [] OTHER -> <<"E-Other">>

Supertypes == {"Legendary", "Basic", "Snow", "World", "Ongoing"}

SortByTypeLine(card) ==
    LET types == card.type_line
    IN  IF types = <<>> THEN <<"Unknown Type">>
        ELSE IF Len(types) > 1
             THEN IF \E i \in 1..Len(types) : types[i] \notin Supertypes
                  THEN <<types[CHOOSE i \in 1..Len(types) :
                                  /\ types[i] \notin Supertypes
                                  /\ \A j \in 1..(i - 1) : types[j] \in Supertypes]>>
                  ELSE <<types[Len(types)]>>
             ELSE <<types[1]>>

SortByFirstLetter(card) ==
    IF card.name = <<>> \/ card.name = NameNA THEN <<"Unknown">> ELSE <<Upper(card.name[1])>>

SortByName(card) == card.name

SortByCondition(card) ==
    LET c == LowerWord(card.condition)
    IN  CASE c = "mint" -> <<"A-Mint">>
          [] c = "near mint" -> <<"B-Near Mint">>
          [] c = "lightly played" -> <<"C-Lightly Played">>
          [] c = "moderately played" -> <<"D-Moderately Played">>
          [] c = "heavily played" -> <<"E-Heavily Played">>
          [] c = "damaged" -> <<"F-Damaged">>
          [] OTHER -> <<"B-Near Mint">>

SortByCommanderStaple(card) == <<"Non-Staple">>

\* self.sort_criteria[criterion](card)
SortFunc(criterion, card) ==
    CASE criterion = "Set" -> SortBySet(card)
      [] criterion = "Color Identity" -> SortByColorIdentity(card)
      [] criterion = "Rarity" -> SortByRarity(card)
      [] criterion = "Type Line" -> SortByTypeLine(card)
      [] criterion = "First Letter" -> SortByFirstLetter(card)
      [] criterion = "Name" -> SortByName(card)
      [] criterion = "Condition" -> SortByCondition(card)
      [] criterion = "Commander Staple" -> SortByCommanderStaple(card)

(***************************************************************************)
(* SorterPlanner.create_sorting_plan                                       *)
(* A card list is a sequence of references: positions in all_cards.        *)
(***************************************************************************)
\* The keys of the dict built by _group_cards_by_criterion, in insertion order.
RECURSIVE GroupKeys(_, _, _)
GroupKeysWithRepeats(store, refs, criterion) ==
    [i \in 1..Len(refs) |-> SortFunc(criterion, store[refs[i]])]
GroupKeys(store, refs, criterion) ==
    IF refs = <<>> THEN <<>>
    ELSE LET before == GroupKeys(store, SubSeq(refs, 1, Len(refs) - 1), criterion)
             k      == SortFunc(criterion, store[refs[Len(refs)]])
         IN  IF \E i \in 1..Len(before) : before[i] = k THEN before ELSE Append(before, k)

\* grouped[key]: the cards of refs with that key, in list order.
GroupOfFirstLetterDropsUnknown(store, refs, criterion, key) ==
    SelectSeq(refs, LAMBDA c : /\ SortFunc(criterion, store[c]) = key
                               /\ key # <<"Unknown">>)
GroupOf(store, refs, criterion, key) ==
    SelectSeq(refs, LAMBDA c : SortFunc(criterion, store[c]) = key)

\* total_count = sum(card.quantity for card in group_cards)
TotalCount(store, refs) == SumSeq([i \in 1..Len(refs) |-> store[refs[i]].quantity])

\* unsorted_count = sum(card.quantity - card.sorted_count for card in group_cards)
UnsortedCount(store, refs) ==
    SumSeq([i \in 1..Len(refs) |-> store[refs[i]].quantity - store[refs[i]].sorted_count])

\* sum(card.unsorted_quantity for card in self.cards), as SortGroup.__post_init__ takes it
UnsortedQuantitySum(store, refs) ==
    SumSeq([i \in 1..Len(refs) |-> UnsortedQuantity(store[refs[i]])])

\* SortGroup(group_name=..., count=unsorted_count, cards=...) followed by the two
\* assignments of total_count and unsorted_count: __post_init__ replaces a count
\* of 0 by the sum of the unsorted quantities.  sub_groups is no field of the
\* class: the attribute exists only on a group it was assigned to (has_sub_groups).
MakeSortGroup(store, name, refs, has_subs, subs) ==
    [group_name |-> name,
     count |-> IF UnsortedCount(store, refs) = 0 /\ refs # <<>>
               THEN UnsortedQuantitySum(store, refs)
               ELSE UnsortedCount(store, refs),
     cards |-> refs,
     is_card_leaf |-> FALSE,
     total_count |-> TotalCount(store, refs),
     unsorted_count |-> UnsortedCount(store, refs),
     has_sub_groups |-> has_subs,
     sub_groups |-> subs]

\* sort_groups.sort(key=lambda g: g.unsorted_count, reverse=True): stable, so
\* groups of equal count keep their order.
RECURSIVE InsertGroup(_, _)
InsertGroup(sorted, g) ==
    IF sorted = <<>> THEN <<g>>
    ELSE IF g.unsorted_count > Head(sorted).unsorted_count THEN <<g>> \o sorted
    ELSE <<Head(sorted)>> \o InsertGroup(Tail(sorted), g)

RECURSIVE SortGroupsDescending(_)
SortGroupsUnsorted(gs) == gs
SortGroupsDescending(gs) ==
    IF gs = <<>> THEN <<>>
    ELSE InsertGroup(SortGroupsDescending(SubSeq(gs, 1, Len(gs) - 1)), gs[Len(gs)])

\* validate_sort_order(sort_order): <<>> for (True, None), else the error message.
\* No caller of create_sorting_plan asks for it.
ValidateSortOrderNamingLastUnknown(order) ==
    IF order = <<>> THEN <<"Sort order cannot be empty">>
    ELSE IF \E i \in 1..Len(order) : order[i] \notin SortCriteria
    THEN <<"Unknown criterion: ",
           order[CHOOSE i \in 1..Len(order) :
                     /\ order[i] \notin SortCriteria
                     /\ \A j \in (i + 1)..Len(order) : order[j] \in SortCriteria]>>
    ELSE IF Len(order) # Cardinality(Range(order))
    THEN <<"Sort order contains duplicate criteria">>
    ELSE <<>>
ValidateSortOrder(order) ==
    IF order = <<>> THEN <<"Sort order cannot be empty">>
    ELSE IF \E i \in 1..Len(order) : order[i] \notin SortCriteria
    THEN <<"Unknown criterion: ",
           order[CHOOSE i \in 1..Len(order) :
                     /\ order[i] \notin SortCriteria
                     /\ \A j \in 1..(i - 1) : order[j] \in SortCriteria]>>
    ELSE IF Len(order) # Cardinality(Range(order))
    THEN <<"Sort order contains duplicate criteria">>
    ELSE <<>>

\* ValueError(f"Unknown sort criterion: {criterion}")
UnknownCriterionErrorUnnamed(criterion) == <<"Unknown sort criterion: ", "">>
UnknownCriterionError(criterion) == <<"Unknown sort criterion: ", criterion>>

\* if not cards or not sort_order
EmptyInputsIgnoringCards(refs, order) == order = <<>>
EmptyInputs(refs, order) == refs = <<>> \/ order = <<>>

\* The ValueError of _group_cards_by_criterion, if create_sorting_plan(refs, order)
\* raises one: it is raised by the first grouping that meets an unknown criterion.
RECURSIVE PlanRaises(_, _, _)
PlanRaises(store, refs, order) ==
    IF EmptyInputs(refs, order) THEN <<>>
    ELSE IF order[1] \notin SortCriteria THEN UnknownCriterionError(order[1])
    ELSE LET keys  == GroupKeys(store, refs, order[1])
             raise == [i \in 1..Len(keys) |->
                          IF Len(order) > 1
                          THEN PlanRaises(store, GroupOf(store, refs, order[1], keys[i]), Tail(order))
                          ELSE <<>>]
         IN  IF \E i \in 1..Len(keys) : raise[i] # <<>>
             THEN raise[CHOOSE i \in 1..Len(keys) :
                            raise[i] # <<>> /\ \A j \in 1..(i - 1) : raise[j] = <<>>]
             ELSE <<>>

\* create_sorting_plan(cards, sort_order), for a call that raises nothing.
RECURSIVE CreateSortingPlan(_, _, _)
CreateSortingPlan(store, refs, order) ==
    IF EmptyInputs(refs, order) THEN <<>>
    ELSE LET keys == GroupKeys(store, refs, order[1])
             sort_groups ==
                 [i \in 1..Len(keys) |->
                     LET group_cards == GroupOf(store, refs, order[1], keys[i])
                     IN  MakeSortGroup(store, keys[i], group_cards, Len(order) > 1,
                                       IF Len(order) > 1
                                       THEN CreateSortingPlan(store, group_cards, Tail(order))
                                       ELSE <<>>)]
         IN  SortGroupsDescending(sort_groups)

(***************************************************************************)
(* The card list and the calls of the planner (SpecPlan)                   *)
(***************************************************************************)
\* The criteria lists the plan is asked for.
SortOrders == {<<"Set">>, <<"Color Identity">>, <<"Rarity">>, <<"Type Line">>,
               <<"First Letter">>, <<"Name">>, <<"Condition">>, <<"Commander Staple">>,
               <<"Set", "First Letter">>, <<"First Letter", "Name">>,
               <<"Commander Staple", "Set", "Rarity">>,
               <<"Bogus">>, <<"Set", "Bogus">>, <<"Set", "Set">>, <<>>}

MaxCards == 3  \* cards in a collection

\* Lists of distinct pool cards, in any order.
PoolLists ==
    {s \in UNION {[1..n -> 1..Len(CardPool)] : n \in 0..MaxCards} :
        \A i, j \in 1..Len(s) : i # j => s[i] # s[j]}

\* clear_project(prompt=False): the card list and every view are dropped.
ClearProject ==
    /\ all_cards # <<>>
    /\ all_cards' = <<>>
    /\ sort_order' = <<>>
    /\ plan' = <<>>
    /\ plan_error' = <<>>
    /\ plan_called' = FALSE
    /\ UNCHANGED <<engineVars, pathVars, restVars, letterVars, tabVars>>

\* on_import_finished(cards): the imported list becomes all_cards; progress_to_load
\* is None, so every sorted_count is the 0 the import worker built the card with.
\* Taken from an empty project: an import into a loaded one replaces the list
\* wholesale and so leads to the same lists.
OnImportFinished ==
    /\ all_cards = <<>>
    /\ \E ps \in PoolLists \ {<<>>} : \E q \in [1..Len(ps) -> 1..MaxQty] :
        /\ all_cards' = [i \in 1..Len(ps) |-> MakeCard(ps[i], q[i], 0)]
        /\ sort_order' = <<>>
        /\ plan' = <<>>
        /\ plan_error' = <<>>
        /\ plan_called' = FALSE
        /\ UNCHANGED <<engineVars, pathVars, restVars, letterVars, tabVars>>

\* The sorted counts a project file can hold for a card.
SavedProgress == 0..MaxQty

\* load_from_project(filepath), after its clear_project: the cards of the file's
\* collection, each with the progress entry of the file as its sorted_count.
LoadFromProject ==
    /\ all_cards = <<>>
    /\ \E ps \in PoolLists \ {<<>>} :
       \E q \in [1..Len(ps) -> 1..MaxQty], progress \in [1..Len(ps) -> SavedProgress] :
        /\ all_cards' = [i \in 1..Len(ps) |-> MakeCard(ps[i], q[i], progress[i])]
        /\ sort_order' = <<>>
        /\ plan' = <<>>
        /\ plan_error' = <<>>
        /\ plan_called' = FALSE
        /\ UNCHANGED <<engineVars, pathVars, restVars, letterVars, tabVars>>

\* planner.create_sorting_plan(all_cards, order), asked for while no plan is held
\* (the result does not depend on an earlier plan).
CallCreateSortingPlanClearingProgress ==
    /\ ~plan_called
    /\ \E order \in SortOrders :
        LET refs  == [i \in 1..Len(all_cards) |-> i]
            raise == PlanRaises(all_cards, refs, order)
        IN  /\ sort_order' = order
            /\ plan_error' = raise
            /\ plan' = IF raise = <<>> THEN CreateSortingPlan(all_cards, refs, order) ELSE <<>>
            /\ plan_called' = TRUE
            /\ all_cards' = [i \in 1..Len(all_cards) |-> [all_cards[i] EXCEPT !.sorted_count = 0]]
            /\ UNCHANGED <<engineVars, pathVars, restVars, letterVars, tabVars>>
CallCreateSortingPlan ==
    /\ ~plan_called
    /\ \E order \in SortOrders :
        LET refs  == [i \in 1..Len(all_cards) |-> i]
            raise == PlanRaises(all_cards, refs, order)
        IN  /\ sort_order' = order
            /\ plan_error' = raise
            /\ plan' = IF raise = <<>> THEN CreateSortingPlan(all_cards, refs, order) ELSE <<>>
            /\ plan_called' = TRUE
            /\ UNCHANGED all_cards
            /\ UNCHANGED <<engineVars, pathVars, restVars, letterVars, tabVars>>

IdleEngine ==
    /\ is_destroyed = FALSE /\ populate_timer = FALSE /\ runs = <<InitialPopulateState>>
    /\ items = <<>> /\ owner = "tree" /\ view_is_destroyed = FALSE
    /\ removed = FALSE /\ deleted = FALSE

InitPlan == IdleEngine /\ IdlePlan /\ IdleLetter /\ IdleTab /\ IdleRest

NextPlan ==
    \/ ClearProject
    \/ OnImportFinished
    \/ LoadFromProject
    \/ CallCreateSortingPlan

SpecPlan == InitPlan /\ [][NextPlan]_vars

(***************************************************************************)
(* The handlers that write sorted_count (SpecProgress)                     *)
(***************************************************************************)
\* _get_cards_from_item(item) / pile_data.cards: the cards an item of the shown
\* tree stands for, as the set of their positions in all_cards.  The items are
\* the groups of the collection by set, by first letter and by name.
ItemCards(store) ==
    LET refs == [i \in 1..Len(store) |-> i]
    IN  {Range(GroupOf(store, refs, c, k)) :
            c \in {"Set", "First Letter", "Name"},
            k \in UNION {Range(GroupKeys(store, refs, d)) : d \in {"Set", "First Letter", "Name"}}}
        \ {{}}

\* The card list after card.sorted_count = card.quantity (to_sorted) or
\* card.sorted_count = 0 on every card of the set.
MarkCardsOfWholeList(store, cards, to_sorted) ==
    [i \in 1..Len(store) |->
        [store[i] EXCEPT !.sorted_count = IF to_sorted THEN store[i].quantity ELSE 0]]
MarkCards(store, cards, to_sorted) ==
    [i \in 1..Len(store) |->
        IF i \in cards
        THEN [store[i] EXCEPT !.sorted_count = IF to_sorted THEN store[i].quantity ELSE 0]
        ELSE store[i]]

\* on_item_sorted_toggled(item, is_sorted): the checkbox of an item.
OnItemSortedToggled ==
    /\ \E cards \in ItemCards(all_cards), is_sorted \in BOOLEAN :
        all_cards' = MarkCards(all_cards, cards, is_sorted)
    /\ UNCHANGED <<sort_order, plan, plan_error, plan_called>>
    /\ UNCHANGED <<engineVars, pathVars, restVars, letterVars, tabVars>>

\* mark_item_as_sorted(item): sorts the group, or unsorts it if all of it is sorted.
MarkItemAsSorted ==
    /\ \E cards \in ItemCards(all_cards) :
        LET is_already_sorted == \A i \in cards : IsFullySorted(all_cards[i])
        IN  all_cards' = MarkCards(all_cards, cards, ~is_already_sorted)
    /\ refresh_pending' = TRUE
    /\ UNCHANGED <<is_refreshing, is_generating, regenerate_pending, completion_pending,
                   show_sorted, generated_from>>
    /\ UNCHANGED <<sort_order, plan, plan_error, plan_called>>
    /\ UNCHANGED <<engineVars, pathVars, restVars, letterVars>>

\* The loop of on_mark_piles_sorted over the selected piles.
RECURSIVE MarkPiles(_, _, _)
MarkPiles(store, selected, is_toggle_mode) ==
    IF selected = <<>> THEN store
    ELSE LET cards_in_pile     == Head(selected)
             is_already_sorted == \A i \in cards_in_pile : IsFullySorted(store[i])
         IN  MarkPiles(MarkCards(store, cards_in_pile, ~(is_toggle_mode /\ is_already_sorted)),
                       Tail(selected), is_toggle_mode)

\* on_mark_piles_sorted(): one selected pile is toggled, several are sorted; then
\* the completion of the set or the regeneration of the piles is scheduled.
OnMarkPilesSorted ==
    /\ ~view_is_destroyed
    /\ \E a, b \in ItemCards(all_cards) :
        LET selected == IF a = b THEN <<a>> ELSE <<a, b>>
        IN  all_cards' = MarkPiles(all_cards, selected, Len(selected) = 1)
    /\ LET all_sorted == \A i \in 1..Len(all_cards') : IsFullySorted(all_cards'[i])
       IN  /\ completion_pending' = (completion_pending \/ all_sorted)
           /\ regenerate_pending' = (regenerate_pending \/ ~all_sorted)
    /\ UNCHANGED <<is_refreshing, is_generating, refresh_pending, show_sorted, generated_from>>
    /\ UNCHANGED <<sort_order, plan, plan_error, plan_called>>
    /\ UNCHANGED <<engineVars, pathVars, restVars, letterVars>>

\* reset_sort_progress(), confirmed.
ResetSortProgress ==
    /\ all_cards # <<>>
    /\ all_cards' = MarkCards(all_cards, 1..Len(all_cards), FALSE)
    /\ refresh_pending' = TRUE
    /\ UNCHANGED <<is_refreshing, is_generating, regenerate_pending, completion_pending,
                   show_sorted, generated_from>>
    /\ UNCHANGED <<sort_order, plan, plan_error, plan_called>>
    /\ UNCHANGED <<engineVars, pathVars, restVars, letterVars>>

InitProgress == IdleEngine /\ IdlePlan /\ IdleLetter /\ IdleTab /\ IdleRest

NextProgress ==
    \/ ClearProject
    \/ OnImportFinished
    \/ LoadFromProject
    \/ OnItemSortedToggled
    \/ MarkItemAsSorted
    \/ OnMarkPilesSorted
    \/ ResetSortProgress

SpecProgress == InitProgress /\ [][NextProgress]_vars

(***************************************************************************)
(* The views of the sorter tab and their refreshes (SpecTab)               *)
(***************************************************************************)
\* What the nodes of a view are computed from: the cards and the checkbox.
Shown == [cards |-> all_cards, show_sorted |-> show_sorted]

\* The top-level elements of the tree that have no children yet.
ChildlessTopLevelItems ==
    {[run |-> items[i].run, node |-> items[i].node] : i \in {j \in DOMAIN items :
        /\ items[j].parent = Root
        /\ \A k \in DOMAIN items :
               items[k].parent # [run |-> items[j].run, node |-> items[j].node]}}

\* _refresh_current_view on a NavigableTreeWidget: the nodes of the level are
\* computed anew, the tree is cleared and populated, and the callback of the
\* population resets _is_refreshing.
RefreshTree ==
    /\ is_refreshing' = TRUE
    /\ \E nodes \in NodeLists, chunk \in 1..MaxChunk :
        PopulateTreeProgressively(nodes, Root, chunk, TRUE, "refresh", TRUE)
    /\ generated_from' = Shown
    /\ UNCHANGED is_generating

\* SetSorterView.generate_plan: guarded by _is_generating, which the callback of
\* the population resets.
GeneratePlan ==
    IF view_is_destroyed \/ is_generating
    THEN UNCHANGED <<engineVars, planVars, pathVars, restVars, letterVars, is_generating, generated_from>>
    ELSE /\ is_generating' = TRUE
         /\ \E nodes \in NodeLists, chunk \in 1..MaxChunk :
             PopulateTreeProgressively(nodes, Root, chunk, TRUE, "generate_plan", TRUE)
         /\ generated_from' = Shown

\* The timeout of a QTimer.singleShot(.., _refresh_current_view).  Once the widget
\* was removed from the stack another widget is the current one: its refresh is
\* not followed here, only the guard that drops it.
RefreshCurrentView ==
    /\ refresh_pending
    /\ refresh_pending' = FALSE
    /\ IF is_refreshing \/ removed
       THEN UNCHANGED <<engineVars, planVars, pathVars, restVars, letterVars,
                        is_refreshing, is_generating, generated_from>>
       ELSE IF owner = "view"
            THEN GeneratePlan /\ UNCHANGED is_refreshing
            ELSE RefreshTree
    /\ UNCHANGED <<regenerate_pending, completion_pending, show_sorted>>

\* The timeout of a QTimer.singleShot(.., _safe_regenerate_plan), or of the
\* singleShot(200, _safe_initial_setup) of the constructor.
SafeRegeneratePlan ==
    /\ regenerate_pending
    /\ regenerate_pending' = FALSE
    /\ GeneratePlan
    /\ UNCHANGED <<is_refreshing, refresh_pending, completion_pending, show_sorted>>

\* The timeout of a QTimer.singleShot(200, _handle_set_completion): the view of a
\* completed set is left by navigate_to_level(current_index - 1).
HandleSetCompletion ==
    /\ completion_pending
    /\ completion_pending' = FALSE
    /\ IF view_is_destroyed \/ removed
       THEN UNCHANGED engineVars
       ELSE NavigateToLevelEffect
    /\ UNCHANGED <<is_refreshing, is_generating, refresh_pending, regenerate_pending,
                   show_sorted, generated_from>>
    /\ UNCHANGED <<planVars, pathVars, restVars, letterVars>>

\* on_item_clicked on a top-level pile without children: _populate_item_children.
PopulateItemChildren ==
    /\ ~view_is_destroyed
    /\ \E item \in ChildlessTopLevelItems, nodes \in NodeLists \ {<<>>}, chunk \in 1..MaxChunk :
        PopulateTreeProgressively(nodes, item, chunk, TRUE, "children", FALSE)
    /\ UNCHANGED tabVars

\* on_show_sorted_toggled(): the slot of the checkbox, called with its new state.
OnShowSortedToggled ==
    /\ show_sorted' = ~show_sorted
    /\ refresh_pending' = (refresh_pending \/ ~is_refreshing)
    /\ UNCHANGED <<is_refreshing, is_generating, regenerate_pending, completion_pending,
                   generated_from>>
    /\ UNCHANGED <<engineVars, planVars, pathVars, restVars, letterVars>>

\* on_mark_group_button_clicked(), confirmed: the selected groups are sorted.
OnMarkGroupButtonClicked ==
    /\ \E cards \in ItemCards(all_cards) :
        /\ \E i \in cards : ~IsFullySorted(all_cards[i])
        /\ all_cards' = MarkCards(all_cards, cards, TRUE)
    /\ refresh_pending' = TRUE
    /\ UNCHANGED <<is_refreshing, is_generating, regenerate_pending, completion_pending,
                   show_sorted, generated_from>>
    /\ UNCHANGED <<sort_order, plan, plan_error, plan_called>>
    /\ UNCHANGED <<engineVars, pathVars, restVars, letterVars>>

\* SetSorterView.on_item_sorted_toggled(item, is_sorted): the checkbox of a pile;
\* the chart is redrawn, the piles are not regenerated.
SetSorterViewOnItemSortedToggled ==
    /\ ~view_is_destroyed
    /\ \E cards \in ItemCards(all_cards), is_sorted \in BOOLEAN :
        /\ all_cards' = MarkCards(all_cards, cards, is_sorted)
        /\ completion_pending' =
               (completion_pending \/
                (is_sorted /\ \A i \in 1..Len(all_cards') : IsFullySorted(all_cards'[i])))
    /\ UNCHANGED <<is_refreshing, is_generating, refresh_pending, regenerate_pending,
                   show_sorted, generated_from>>
    /\ UNCHANGED <<sort_order, plan, plan_error, plan_called>>
    /\ UNCHANGED <<engineVars, pathVars, restVars, letterVars>>

\* The cards of the collection shown by the views.
TabCards == <<MakeCard(1, 1, 0)>>

\* A tree made by create_new_view(cards, level) is populated in the call that
\* makes it (no callback); a SetSorterView has its first generate_plan scheduled
\* by its constructor.
InitTab ==
    /\ IdleRest
    /\ is_destroyed = FALSE
    /\ owner \in {"tree", "view"}
    /\ view_is_destroyed = FALSE
    /\ removed = FALSE
    /\ deleted = FALSE
    /\ items = <<>>
    /\ all_cards = TabCards /\ sort_order = <<>> /\ plan = <<>> /\ plan_error = <<>>
    /\ plan_called = FALSE
    /\ IdlePath
    /\ IdleLetter
    /\ is_refreshing = FALSE /\ is_generating = FALSE
    /\ refresh_pending = FALSE /\ completion_pending = FALSE
    /\ show_sorted = FALSE
    /\ IF owner = "tree"
       THEN /\ \E nodes \in NodeLists, chunk \in 1..MaxChunk :
                runs = <<InitialPopulateState,
                         [nodes |-> nodes, parent_item |-> Root, chunk_size |-> chunk,
                          on_finished |-> FALSE, closure |-> "None",
                          current_index |-> 0, active |-> TRUE, started |-> TRUE,
                          cancelled |-> FALSE, given |-> nodes, log |-> <<>>]>>
            /\ populate_timer = TRUE
            /\ regenerate_pending = FALSE
            /\ generated_from = Shown
       ELSE /\ runs = <<InitialPopulateState>>
            /\ populate_timer = FALSE
            /\ regenerate_pending = TRUE
            /\ generated_from = [cards |-> <<>>, show_sorted |-> FALSE]

NextTab ==
    \/ ProcessNextChunk
    \/ RefreshCurrentView
    \/ SafeRegeneratePlan
    \/ HandleSetCompletion
    \/ NavigateRemove
    \/ DeferredDelete
    \/ ~removed /\ OnShowSortedToggled
    \/ ~removed /\ ResetSortProgress
    \/ ~removed /\ owner = "tree" /\ OnItemSortedToggled
    \/ ~removed /\ owner = "tree" /\ MarkItemAsSorted
    \/ ~removed /\ owner = "tree" /\ OnMarkGroupButtonClicked
    \/ ~removed /\ owner = "view" /\ SetSorterViewOnItemSortedToggled
    \/ ~removed /\ owner = "view" /\ OnMarkPilesSorted
    \/ ~removed /\ owner = "view" /\ PopulateItemChildren

SpecTab == InitTab /\ [][NextTab]_vars

(***************************************************************************)
(* A tree view under refreshes and navigation, with a fair event loop      *)
(* (SpecRefresh)                                                           *)
(***************************************************************************)
InitRefresh == InitTab /\ owner = "tree"

NextRefresh ==
    \/ ProcessNextChunk
    \/ RefreshCurrentView
    \/ NavigateRemove
    \/ DeferredDelete
    \/ ~removed /\ OnShowSortedToggled

\* The event loop delivers the timeouts of the population timer and of the
\* single-shot timers, and the deferred deletes.
SpecRefresh ==
    /\ InitRefresh
    /\ [][NextRefresh]_vars
    /\ WF_vars(ProcessNextChunk)
    /\ WF_vars(RefreshCurrentView)
    /\ WF_vars(DeferredDelete)

(***************************************************************************)
(* SorterPlanner.get_cards_at_path (SpecPath)                              *)
(***************************************************************************)
MaxPathLen == 3  \* elements of a path

\* all_cards.extend(group.cards) over the groups, in order.
RECURSIVE ExtendAll(_)
ExtendAll(groups) ==
    IF groups = <<>> THEN <<>> ELSE Head(groups).cards \o ExtendAll(Tail(groups))

\* The inner loop: the position of the first group named name, 0 if there is none.
FoundGroup(groups, name) ==
    IF \E k \in 1..Len(groups) : groups[k].group_name = name
    THEN CHOOSE k \in 1..Len(groups) :
             /\ groups[k].group_name = name
             /\ \A j \in 1..(k - 1) : groups[j].group_name # name
    ELSE 0

\* The loop over the path from its element i on, with current_groups: the outcome
\* of the call and the list it returns.  Reading sub_groups of a group that was
\* never given the attribute raises AttributeError.
RECURSIVE WalkPath(_, _, _)
WalkPath(current_groups, path, i) ==
    IF i > Len(path) THEN [outcome |-> "returned", cards |-> <<>>]
    ELSE LET found == FoundGroup(current_groups, path[i])
         IN  IF found = 0 THEN [outcome |-> "returned", cards |-> <<>>]
             ELSE IF path[i] = path[Len(path)]
             THEN [outcome |-> "returned", cards |-> current_groups[found].cards]
             ELSE IF ~current_groups[found].has_sub_groups
             THEN [outcome |-> "AttributeError", cards |-> <<>>]
             ELSE WalkPath(current_groups[found].sub_groups, path, i + 1)

\* get_cards_at_path(sort_groups, path)
GetCardsAtPath(sort_groups, path) ==
    IF path = <<>> THEN [outcome |-> "returned", cards |-> ExtendAll(sort_groups)]
    ELSE WalkPath(sort_groups, path, 1)

\* The group names of a tree, at every level.
RECURSIVE GroupNames(_)
GroupNames(groups) ==
    UNION {{groups[k].group_name} \cup GroupNames(groups[k].sub_groups) : k \in 1..Len(groups)}

\* The paths asked for: the names of the tree and one that names no group.
PathsOf(groups) ==
    UNION {[1..n -> GroupNames(groups) \cup {<<"Elsewhere">>}] : n \in 0..MaxPathLen}

\* The criteria lists of the trees that are navigated.
PathOrders == {<<"Set">>, <<"Set", "Type Line">>, <<"First Letter", "Name">>,
               <<"Set", "Rarity", "Condition">>}

\* navigate_to_group: planner.get_cards_at_path(current_sort_groups, current_path)
CallGetCardsAtPath ==
    /\ path_outcome = "none"
    /\ \E path \in PathsOf(plan) :
        LET result == GetCardsAtPath(plan, path)
        IN  /\ current_path' = path
            /\ path_outcome' = result.outcome
            /\ cards_at_path' = result.cards
    /\ UNCHANGED <<engineVars, planVars, letterVars, tabVars, restVars>>

\* navigate_to_root(cards, sort_order) on an imported collection: the tree of the
\* plan is held and no path has been asked for.
InitPath ==
    /\ IdleRest
    /\ IdleEngine
    /\ IdleLetter
    /\ IdleTab
    /\ IdlePath
    /\ \E ps \in PoolLists, order \in PathOrders :
        /\ all_cards = [i \in 1..Len(ps) |-> MakeCard(ps[i], 1, 0)]
        /\ sort_order = order
        /\ plan = CreateSortingPlan(all_cards, [i \in 1..Len(ps) |-> i], order)
        /\ plan_error = <<>>
        /\ plan_called = TRUE

NextPath == CallGetCardsAtPath

SpecPath == InitPath /\ [][NextPath]_vars

(***************************************************************************)
(* SorterPlanner.create_set_letter_plan                                    *)
(* A pile label is the sequence of its letters; a mapping is a function    *)
(* from the letters that are keys of the dict to labels.                   *)
(***************************************************************************)
MaxThreshold == 4  \* threshold ranges over -1..MaxThreshold and the default

\* threshold: int = 20
DefaultThreshold == 20

\* The thresholds the plan is asked with.
Thresholds == ((-1)..MaxThreshold) \cup {DefaultThreshold}

\* A card of the set being sorted: only name, quantity and sorted_count are read.
SetCard(name, quantity, sorted_count) ==
    [scryfall_id |-> "set-card", name |-> name, set_name |-> "LEA", rarity |-> "common",
     type_line |-> <<"Creature">>, color_identity |-> <<>>, condition |-> "N/A",
     quantity |-> quantity, sorted_count |-> sorted_count]

\* name and name != 'N/A'
HasName(card) == card.name # <<>> /\ card.name # NameNA

\* The quantity of the named cards whose upper-cased first character is l.
LetterTotal(cards, l) ==
    SumSeq([i \in 1..Len(cards) |->
               IF HasName(cards[i]) /\ Upper(cards[i].name[1]) = l
               THEN cards[i].quantity ELSE 0])

\* letter_counts read over the alphabet: the total of each of the first n letters.
RECURSIVE LetterCountsUpTo(_, _)
LetterCountsUpTo(cards, n) ==
    IF n = 0 THEN <<>>
    ELSE (Letters[n] :> LetterTotal(cards, Letters[n])) @@ LetterCountsUpTo(cards, n - 1)

LetterCounts(cards) == LetterCountsUpTo(cards, Len(Letters))

\* flush_buffer(): every letter of the buffer is mapped to the buffer.
FlushBufferFirstLetterOnly(mapping, buffer) ==
    IF buffer = <<>> THEN mapping ELSE (buffer[1] :> buffer) @@ mapping
FlushBuffer(mapping, buffer) == [ch \in Range(buffer) |-> buffer] @@ mapping

\* 0 < count < threshold
IsLowCountingEmpty(count, t) == count < t
IsLow(count, t) == 0 < count /\ count < t

\* if buffer_total >= threshold or not next_letter_small
ShouldFlushAlways(buffer_total, t, next_letter_small) == TRUE
ShouldFlushAtRunEndOnly(buffer_total, t, next_letter_small) == ~next_letter_small
ShouldFlush(buffer_total, t, next_letter_small) == buffer_total >= t \/ ~next_letter_small

\* The loop of _create_grouped_letter_plan from position i of letters on, with
\* the mapping, buffer and buffer_total built so far, and the final flush.
RECURSIVE GroupedScan(_, _, _, _, _, _, _)
GroupedScan(letters, counts, t, i, mapping, buffer, buffer_total) ==
    IF i > Len(letters) THEN FlushBuffer(mapping, buffer)
    ELSE LET letter == letters[i]
             count  == counts[letter]
         IN  IF IsLow(count, t)
             THEN LET b == Append(buffer, letter)
                      tot == buffer_total + count
                      next_letter_small ==
                          i < Len(letters) /\ IsLow(counts[letters[i + 1]], t)
                  IN  IF ShouldFlush(tot, t, next_letter_small)
                      THEN GroupedScan(letters, counts, t, i + 1, FlushBuffer(mapping, b), <<>>, 0)
                      ELSE GroupedScan(letters, counts, t, i + 1, mapping, b, tot)
             ELSE LET flushed == FlushBuffer(mapping, buffer)
                  IN  GroupedScan(letters, counts, t, i + 1,
                                  IF count > 0 THEN (letter :> <<letter>>) @@ flushed ELSE flushed,
                                  <<>>, 0)

\* The mapping of _create_grouped_letter_plan: the scan runs over the whole alphabet.
GroupedMappingOverOwnedLetters(counts, t) ==
    GroupedScan(SelectSeq(Letters, LAMBDA l : counts[l] > 0), counts, t, 1, <<>>, <<>>, 0)
GroupedMapping(counts, t) == GroupedScan(Letters, counts, t, 1, <<>>, <<>>, 0)

\* list.sort(key=lambda x: x[1], reverse=True) of letters by count: stable.
RECURSIVE InsertByCount(_, _, _)
InsertByCount(sorted, l, counts) ==
    IF sorted = <<>> THEN <<l>>
    ELSE IF counts[l] > counts[Head(sorted)] THEN <<l>> \o sorted
    ELSE <<Head(sorted)>> \o InsertByCount(Tail(sorted), l, counts)

RECURSIVE SortByCountDescending(_, _)
SortByCountDescending(ls, counts) ==
    IF ls = <<>> THEN <<>>
    ELSE InsertByCount(SortByCountDescending(SubSeq(ls, 1, Len(ls) - 1), counts), ls[Len(ls)], counts)

\* current_sum = sum(c for _, c in bin_items)
BinSum(bin, counts) == SumSeq([k \in 1..Len(bin) |-> counts[bin[k]]])

\* A bin the item may go to: fewer than 3 letters and room for the count.
BinFitsWithoutLetterCap(bin, count, counts, capacity) ==
    BinSum(bin, counts) + count <= capacity
BinFits(bin, count, counts, capacity) ==
    /\ Len(bin) < 3
    /\ BinSum(bin, counts) + count <= capacity

\* The best bin for an item: the first one, among those that fit, that leaves the
\* least space (0 if none fits).
BestBinFirstFit(bins, count, counts, capacity) ==
    LET fits == {b \in 1..Len(bins) : BinFits(bins[b], count, counts, capacity)}
    IN  IF fits = {} THEN 0
        ELSE CHOOSE b \in fits : \A c \in fits : b <= c
BestBin(bins, count, counts, capacity) ==
    LET fits == {b \in 1..Len(bins) : BinFits(bins[b], count, counts, capacity)}
        space(b) == capacity - (BinSum(bins[b], counts) + count)
    IN  IF fits = {} THEN 0
        ELSE CHOOSE b \in fits :
                 \A c \in fits : space(b) < space(c) \/ (space(b) = space(c) /\ b <= c)

\* The loop of _optimal_bin_packing over the items from position i on.
RECURSIVE PackFrom(_, _, _, _, _)
PackFrom(its, i, bins, counts, capacity) ==
    IF i > Len(its) THEN bins
    ELSE LET best == BestBin(bins, counts[its[i]], counts, capacity)
         IN  IF best # 0
             THEN PackFrom(its, i + 1, [bins EXCEPT ![best] = Append(@, its[i])], counts, capacity)
             ELSE PackFrom(its, i + 1, Append(bins, <<its[i]>>), counts, capacity)

\* _optimal_bin_packing(items, capacity): the bins, each a list of letters.
OptimalBinPacking(its, counts, capacity) ==
    IF its = <<>> THEN <<>>
    ELSE PackFrom(SortByCountDescending(its, counts), 1, <<>>, counts, capacity)

\* The mapping of _create_optimal_letter_plan.
OptimalMapping(counts, t) ==
    LET letter_counts == SortByCountDescending(Letters, counts)
        high_letters  == SelectSeq(letter_counts, LAMBDA l : counts[l] >= t)
        low_letters   == SelectSeq(letter_counts, LAMBDA l : IsLow(counts[l], t))
        groups        == OptimalBinPacking(low_letters, counts, t)
        group_of(l)   == groups[CHOOSE g \in 1..Len(groups) : l \in Range(groups[g])]
    IN  [l \in Range(Letters) |->
            IF l \in Range(high_letters) THEN <<l>>
            ELSE IF l \in Range(low_letters) THEN SortedLetters(group_of(l))
            ELSE <<l>>]

\* The mapping of _create_simple_letter_plan.
SimpleMapping == [l \in Range(Letters) |-> <<l>>]

\* mapping.get(first_letter, first_letter)
PileKey(mapping, first_letter) ==
    IF first_letter \in DOMAIN mapping THEN mapping[first_letter] ELSE <<first_letter>>

\* The pile of a named card.
CardPileKeyOfRawCharacter(mapping, card) == PileKey(mapping, card.name[1])
CardPileKey(mapping, card) == PileKey(mapping, Upper(card.name[1]))

\* The keys of piles, in insertion order.
RECURSIVE PileKeys(_, _, _)
PileKeys(store, refs, mapping) ==
    IF refs = <<>> THEN <<>>
    ELSE LET before == PileKeys(store, SubSeq(refs, 1, Len(refs) - 1), mapping)
             card   == store[refs[Len(refs)]]
         IN  IF ~HasName(card) THEN before
             ELSE IF \E k \in 1..Len(before) : before[k] = CardPileKey(mapping, card)
                  THEN before
                  ELSE Append(before, CardPileKey(mapping, card))

\* The SortGroups built from piles: one per pile key, with the named cards mapped to it.
LetterPiles(store, mapping) ==
    LET refs == [i \in 1..Len(store) |-> i]
        keys == PileKeys(store, refs, mapping)
    IN  [k \in 1..Len(keys) |->
            MakeSortGroup(store, keys[k],
                          SelectSeq(refs, LAMBDA c : /\ HasName(store[c])
                                                     /\ CardPileKey(mapping, store[c]) = keys[k]),
                          FALSE, <<>>)]

\* The mapping create_set_letter_plan returns for a policy.
LetterMapping(cards, pol, t) ==
    CASE pol = "optimal" -> OptimalMapping(LetterCounts(cards), t)
      [] pol = "grouped" -> GroupedMapping(LetterCounts(cards), t)
      [] pol = "simple"  -> SimpleMapping

(***************************************************************************)
(* The calls of create_set_letter_plan (SpecLetter)                        *)
(***************************************************************************)
\* The names the cards argument is drawn from, in list order: at most one card
\* per name; the first one has no usable name.
SetNames == <<NameNA, <<"a", "b">>, <<"B">>, <<"Q", "i">>, <<"X">>, <<"Y">>, <<"Z", "z">>>>

\* A cards argument: each name absent or owned 1..MaxQty times.
RECURSIVE CardsOf(_, _)
CardsOf(qty, i) ==
    IF i > Len(SetNames) THEN <<>>
    ELSE (IF qty[i] > 0 THEN <<SetCard(SetNames[i], qty[i], 0)>> ELSE <<>>) \o CardsOf(qty, i + 1)

SetCardLists == {CardsOf(qty, 1) : qty \in [1..Len(SetNames) -> 0..MaxQty]}

\* create_set_letter_plan(cards, set_name, group_low_count, optimal_grouping, threshold)
\* is called on the cards; the groups and the mapping it returns are kept.
CreateSetLetterPlan ==
    /\ policy = "none"
    /\ \E pol \in {"simple", "grouped", "optimal"}, t \in Thresholds :
        /\ policy' = pol
        /\ threshold' = t
        /\ letter_mapping' = LetterMapping(set_cards, pol, t)
        /\ letter_groups' = LetterPiles(set_cards, letter_mapping')
    /\ UNCHANGED set_cards
    /\ UNCHANGED <<engineVars, planVars, pathVars, restVars, tabVars>>

InitLetter ==
    /\ IdleRest
    /\ IdleEngine
    /\ IdlePlan
    /\ IdleTab
    /\ set_cards \in SetCardLists
    /\ policy = "none"
    /\ threshold = 0
    /\ letter_groups = <<>>
    /\ letter_mapping = <<>>

NextLetter == CreateSetLetterPlan

SpecLetter == InitLetter /\ [][NextLetter]_vars

(***************************************************************************)
(* CsvImportWorker.process in its thread, and cancel() called from the UI  *)
(* thread (SpecImport).  A step of process() is one pass of a loop, or the *)
(* code between and after the loops; cancel() only sets the flag the loops *)
(* read at the top of a pass.                                              *)
(***************************************************************************)
MaxRows == 3       \* rows of a CSV file
RowLimit == 50000  \* if row_num > 50000

\* str.strip() of a text of letters and blanks.
RECURSIVE LStrip(_)
LStrip(s) == IF s # <<>> /\ Head(s) = " " THEN LStrip(Tail(s)) ELSE s

RECURSIVE RStrip(_)
RStrip(s) == IF s # <<>> /\ s[Len(s)] = " " THEN RStrip(SubSeq(s, 1, Len(s) - 1)) ELSE s

Strip(s) == RStrip(LStrip(s))

\* What the 'Scryfall ID' column of a row may hold.
RawIds == {<<" ">>, <<"a">>, <<"a", " ">>, <<"b">>}

\* What the 'Quantity' column of a row may hold: the digits of an integer, or
\* text int() raises ValueError on.
QuantityTexts ==
    {[is_int |-> TRUE, value |-> n] : n \in 0..MaxQty} \cup {[is_int |-> FALSE, value |-> 0]}

CsvRows == [scryfall_id : RawIds, quantity : QuantityTexts]

CsvFiles == UNION {[1..n -> CsvRows] : n \in 0..MaxRows}

\* The orders list(scryfall_ids) may have: the order of a set of strings.
ListsOf(S) == {l \in [1..Cardinality(S) -> S] : \A i, j \in 1..Cardinality(S) : l[i] = l[j] => i = j}

\* The row is skipped: no identifier, or int() raised, or total_quantity <= 0.
SkipsRow(row) ==
    \/ Strip(row.scryfall_id) = <<>>
    \/ ~row.quantity.is_int
    \/ row.quantity.value <= 0

\* card_quantities[scryfall_id] = card_quantities.get(scryfall_id, 0) + total_quantity
AddQuantityOverwriting(quantities, scryfall_id, total_quantity) ==
    (scryfall_id :> total_quantity) @@ quantities
AddQuantity(quantities, scryfall_id, total_quantity) ==
    (scryfall_id :> (IF scryfall_id \in DOMAIN quantities THEN quantities[scryfall_id] ELSE 0)
                    + total_quantity) @@ quantities

\* A terminal signal, with the value _is_cancelled had when it was emitted.
Signal(name) == [signal |-> name, cancelled |-> is_cancelled]

\* The thread starts process(): the file is opened, or open() raises and the
\* error is reported.
StartProcess ==
    /\ worker_pc = "idle"
    /\ \E readable \in BOOLEAN :
        IF readable
        THEN /\ worker_pc' = "rows"
             /\ emitted' = emitted
        ELSE /\ worker_pc' = "done"
             /\ emitted' = Append(emitted, Signal("error"))
    /\ UNCHANGED <<csv_rows, row_num, card_quantities, unique_ids, id_index, import_cards,
                   is_cancelled>>
    /\ UNCHANGED <<engineVars, planVars, pathVars, letterVars, tabVars, pileVars, nodeVars,
                   validateVars>>

\* One pass of the loop over the rows.
ReadRow ==
    /\ worker_pc = "rows"
    /\ row_num < Len(csv_rows)
    /\ IF is_cancelled
       THEN /\ worker_pc' = "done"
            /\ UNCHANGED <<row_num, card_quantities, emitted>>
       ELSE IF row_num > RowLimit
       THEN /\ worker_pc' = "done"
            /\ emitted' = Append(emitted, Signal("error"))
            /\ UNCHANGED <<row_num, card_quantities>>
       ELSE LET row == csv_rows[row_num + 1]
            IN  /\ row_num' = row_num + 1
                /\ card_quantities' =
                       IF SkipsRow(row) THEN card_quantities
                       ELSE AddQuantity(card_quantities, Strip(row.scryfall_id), row.quantity.value)
                /\ UNCHANGED <<worker_pc, emitted>>
    /\ UNCHANGED <<csv_rows, unique_ids, id_index, import_cards, is_cancelled>>
    /\ UNCHANGED <<engineVars, planVars, pathVars, letterVars, tabVars, pileVars, nodeVars,
                   validateVars>>

\* The code between the loops: an empty file, a file without identifiers, too
\* little memory or a missing database end the run with an error.
EndRows ==
    /\ worker_pc = "rows"
    /\ row_num = Len(csv_rows)
    /\ \E memory_safe \in BOOLEAN, allprintings_loaded \in BOOLEAN :
        IF row_num = 0 \/ DOMAIN card_quantities = {} \/ ~memory_safe \/ ~allprintings_loaded
        THEN /\ worker_pc' = "done"
             /\ emitted' = Append(emitted, Signal("error"))
             /\ UNCHANGED unique_ids
        ELSE /\ worker_pc' = "ids"
             /\ unique_ids' \in ListsOf(DOMAIN card_quantities)
             /\ UNCHANGED emitted
    /\ UNCHANGED <<csv_rows, row_num, card_quantities, id_index, import_cards, is_cancelled>>
    /\ UNCHANGED <<engineVars, planVars, pathVars, letterVars, tabVars, pileVars, nodeVars,
                   validateVars>>

\* One pass of the loop over unique_ids: the card is built if the lookup finds
\* it; the memory check of the passes with i % 100 == 0 may end the run.
FetchCard ==
    /\ worker_pc = "ids"
    /\ id_index < Len(unique_ids)
    /\ IF is_cancelled
       THEN /\ worker_pc' = "done"
            /\ UNCHANGED <<id_index, import_cards, emitted>>
       ELSE \E found \in BOOLEAN, memory_safe \in BOOLEAN :
            LET scryfall_id == unique_ids[id_index + 1]
            IN  /\ import_cards' = IF found
                             THEN Append(import_cards, [scryfall_id |-> scryfall_id,
                                                 quantity |-> card_quantities[scryfall_id]])
                             ELSE import_cards
                /\ id_index' = id_index + 1
                /\ IF found /\ id_index % 100 = 0 /\ ~memory_safe
                   THEN /\ worker_pc' = "done"
                        /\ emitted' = Append(emitted, Signal("error"))
                   ELSE UNCHANGED <<worker_pc, emitted>>
    /\ UNCHANGED <<csv_rows, row_num, card_quantities, unique_ids, is_cancelled>>
    /\ UNCHANGED <<engineVars, planVars, pathVars, letterVars, tabVars, pileVars, nodeVars,
                   validateVars>>

\* The code after the second loop: error without cards, finished(cards) with.
EndIds ==
    /\ worker_pc = "ids"
    /\ id_index = Len(unique_ids)
    /\ worker_pc' = "done"
    /\ emitted' = Append(emitted, Signal(IF import_cards = <<>> THEN "error" ELSE "finished"))
    /\ UNCHANGED <<csv_rows, row_num, card_quantities, unique_ids, id_index, import_cards,
                   is_cancelled>>
    /\ UNCHANGED <<engineVars, planVars, pathVars, letterVars, tabVars, pileVars, nodeVars,
                   validateVars>>

\* cancel(), called by WorkerManager._cleanup_worker in the UI thread.
Cancel ==
    /\ ~is_cancelled
    /\ is_cancelled' = TRUE
    /\ UNCHANGED <<csv_rows, worker_pc, row_num, card_quantities, unique_ids, id_index, import_cards,
                   emitted>>
    /\ UNCHANGED <<engineVars, planVars, pathVars, letterVars, tabVars, pileVars, nodeVars,
                   validateVars>>

InitImport ==
    /\ IdleEngine
    /\ IdlePlan
    /\ IdleLetter
    /\ IdleTab
    /\ IdlePile /\ IdleNodes /\ IdleValidate
    /\ csv_rows \in CsvFiles
    /\ worker_pc = "idle" /\ row_num = 0
    /\ card_quantities = <<>> /\ unique_ids = <<>> /\ id_index = 0
    /\ import_cards = <<>> /\ is_cancelled = FALSE /\ emitted = <<>>

NextImport ==
    \/ StartProcess
    \/ ReadRow
    \/ EndRows
    \/ FetchCard
    \/ EndIds
    \/ Cancel

SpecImport == InitImport /\ [][NextImport]_vars

(***************************************************************************)
(* The calls of validate_sort_order (SpecValidate)                         *)
(***************************************************************************)
MaxOrderLen == 3   \* length of a sort order handed to validate_sort_order

\* The names a sort order is made of: the library and two names outside it.
CriterionNames == SortCriteria \cup {"Bogus", "Other"}

ValidateOrders == UNION {[1..n -> CriterionNames] : n \in 0..MaxOrderLen}

\* validate_sort_order(sort_order) is called; every path of it returns a pair.
CallValidateSortOrder ==
    /\ \E order \in ValidateOrders :
        /\ validate_order' = order
        /\ validate_result' = [outcome |-> "returned",
                               is_valid |-> ValidateSortOrder(order) = <<>>,
                               message |-> ValidateSortOrder(order)]
    /\ UNCHANGED <<engineVars, planVars, pathVars, letterVars, tabVars, pileVars, nodeVars,
                   importVars>>

InitValidate ==
    /\ IdleRest
    /\ IdleEngine
    /\ IdlePlan
    /\ IdleLetter
    /\ IdleTab

NextValidate == CallValidateSortOrder

SpecValidate == InitValidate /\ [][NextValidate]_vars

(***************************************************************************)
(* A tree whose nodes hold cards (SpecCheck): the check boxes of the       *)
(* elements and of show_sorted_check are used while the tree is populated  *)
(* and refreshed.                                                          *)
(***************************************************************************)
\* The cards of the collection: two cards owned once, none sorted yet.
CheckCards == <<MakeCard(1, 1, 0), MakeCard(2, 1, 0)>>

\* The nodes of the level shown: a group of the two cards, and nodes without
\* cards.
CheckNodeCards == (1 :> <<1, 2>>) @@ (2 :> <<>>) @@ (3 :> <<>>)

InitCheck ==
    /\ IdlePile
    /\ IdleValidate
    /\ IdleImport
    /\ node_cards = CheckNodeCards
    /\ is_destroyed = FALSE
    /\ owner = "tree"
    /\ view_is_destroyed = FALSE
    /\ removed = FALSE
    /\ deleted = FALSE
    /\ items = <<>>
    /\ all_cards = CheckCards /\ sort_order = <<>> /\ plan = <<>> /\ plan_error = <<>>
    /\ plan_called = FALSE
    /\ IdlePath
    /\ IdleLetter
    /\ is_refreshing = FALSE /\ is_generating = FALSE
    /\ refresh_pending = FALSE /\ regenerate_pending = FALSE /\ completion_pending = FALSE
    /\ show_sorted \in BOOLEAN
    /\ \E nodes \in NodeLists, chunk \in 1..MaxChunk :
           runs = <<InitialPopulateState,
                    [nodes |-> nodes, parent_item |-> Root, chunk_size |-> chunk,
                     on_finished |-> FALSE, closure |-> "None",
                     current_index |-> 0, active |-> TRUE, started |-> TRUE,
                     cancelled |-> FALSE, given |-> nodes, log |-> <<>>]>>
    /\ populate_timer = TRUE
    /\ generated_from = Shown

NextCheck ==
    \/ ProcessNextChunk
    \/ RefreshCurrentView
    \/ OnShowSortedToggled
    \/ OnItemSortedToggled

SpecCheck == InitCheck /\ [][NextCheck]_vars

(***************************************************************************)
(* SetSorterView.generate_plan's letter grouping (SpecGrid): the view does  *)
(* not call the planner, it computes the mapping of the piles itself.      *)
(***************************************************************************)
\* flush(): every letter of buf is mapped to buf.
ViewFlushFirstLetterOnly(mapping, buf) ==
    IF buf = <<>> THEN mapping ELSE (buf[1] :> buf) @@ mapping
ViewFlush(mapping, buf) == [ch \in Range(buf) |-> buf] @@ mapping

\* The loop over string.ascii_uppercase of generate_plan's group_low_count
\* branch from position i on, and the flush after it.
RECURSIVE ViewScan(_, _, _, _, _, _)
ViewScan(counts, t, i, mapping, buf, tot) ==
    IF i > Len(Letters) THEN ViewFlush(mapping, buf)
    ELSE LET l     == Letters[i]
             count == counts[l]
         IN  IF 0 < count /\ count < t
             THEN LET b == Append(buf, l)
                      total == tot + count
                  IN  IF total >= t \/ ~(i < Len(Letters) /\ counts[Letters[i + 1]] < t)
                      THEN ViewScan(counts, t, i + 1, ViewFlush(mapping, b), <<>>, 0)
                      ELSE ViewScan(counts, t, i + 1, mapping, b, total)
             ELSE ViewScan(counts, t, i + 1, (l :> <<l>>) @@ ViewFlush(mapping, buf), <<>>, 0)

\* SetSorterView._optimal_bin_packing: the bin an item goes to (0: a new one).
ViewBestBin(bins, count, counts, capacity) ==
    LET fits == {b \in 1..Len(bins) : /\ ~(Len(bins[b]) >= 3)
                                      /\ BinSum(bins[b], counts) + count <= capacity}
        remaining_space(b) == capacity - (BinSum(bins[b], counts) + count)
    IN  IF fits = {} THEN 0
        ELSE CHOOSE b \in fits :
                 \A c \in fits : \/ remaining_space(b) < remaining_space(c)
                                 \/ remaining_space(b) = remaining_space(c) /\ b <= c

RECURSIVE ViewPackFrom(_, _, _, _, _)
ViewPackFrom(its, i, bins, counts, capacity) ==
    IF i > Len(its) THEN bins
    ELSE LET best_bin == ViewBestBin(bins, counts[its[i]], counts, capacity)
         IN  IF best_bin # 0
             THEN ViewPackFrom(its, i + 1, [bins EXCEPT ![best_bin] = Append(@, its[i])],
                               counts, capacity)
             ELSE ViewPackFrom(its, i + 1, Append(bins, <<its[i]>>), counts, capacity)

ViewOptimalBinPacking(its, counts, capacity) ==
    IF its = <<>> THEN <<>>
    ELSE ViewPackFrom(SortByCountDescending(its, counts), 1, <<>>, counts, capacity)

\* SetSorterView._create_optimal_letter_grouping(threshold)
CreateOptimalLetterGrouping(counts, t) ==
    LET letter_counts == SortByCountDescending(Letters, counts)
        high_letters  == SelectSeq(letter_counts, LAMBDA l : counts[l] >= t)
        low_letters   == SelectSeq(letter_counts, LAMBDA l : 0 < counts[l] /\ counts[l] < t)
        groups        == ViewOptimalBinPacking(low_letters, counts, t)
        group_of(l)   == groups[CHOOSE g \in 1..Len(groups) : l \in Range(groups[g])]
    IN  [l \in Range(Letters) |->
            IF l \in Range(high_letters) THEN <<l>>
            ELSE IF l \in Range(low_letters) THEN SortedLetters(group_of(l))
            ELSE <<l>>]

\* What group_threshold_edit may hold: the digits of an integer, or other text.
ThresholdTexts ==
    {[is_int |-> TRUE, value |-> n] : n \in Thresholds} \cup {[is_int |-> FALSE, value |-> 0]}

\* try: threshold = int(text)  except ValueError: threshold = 20
IntOrDefault(text) == IF text.is_int THEN text.value ELSE DefaultThreshold

\* The letter-grouping part of SetSorterView.generate_plan over cards_to_sort:
\* the branch is chosen by the two check boxes of the tab; the last branch files
\* a card under its first letter and reads neither threshold nor mapping.
ViewGeneratePlan ==
    /\ view_policy = "none"
    /\ \E optimal_grouping_check \in BOOLEAN, group_low_count_check \in BOOLEAN,
          text \in ThresholdTexts :
        LET counts == LetterCounts(set_cards)
        IN  IF optimal_grouping_check
            THEN /\ view_policy' = "optimal"
                 /\ view_threshold' = IntOrDefault(text)
                 /\ view_mapping' = CreateOptimalLetterGrouping(counts, IntOrDefault(text))
            ELSE IF group_low_count_check
            THEN /\ view_policy' = "grouped"
                 /\ view_threshold' = IntOrDefault(text)
                 /\ view_mapping' = ViewScan(counts, IntOrDefault(text), 1, <<>>, <<>>, 0)
            ELSE /\ view_policy' = "simple"
                 /\ view_threshold' = view_threshold
                 /\ view_mapping' = <<>>
    /\ UNCHANGED <<engineVars, planVars, pathVars, letterVars, tabVars, nodeVars, validateVars,
                   importVars>>

\* The names of the cards of the set, one per first letter: two runs of
\* neighbouring letters.
GridNames == <<<<"a", "b">>, <<"B">>, <<"Y">>, <<"Z", "z">>>>

RECURSIVE GridCardsOf(_, _)
GridCardsOf(qty, i) ==
    IF i > Len(GridNames) THEN <<>>
    ELSE (IF qty[i] > 0 THEN <<SetCard(GridNames[i], qty[i], 0)>> ELSE <<>>)
         \o GridCardsOf(qty, i + 1)

GridCardLists == {GridCardsOf(qty, 1) : qty \in [1..Len(GridNames) -> 0..MaxQty]}

InitGrid ==
    /\ IdleRest
    /\ IdleEngine
    /\ IdlePlan
    /\ IdleTab
    /\ set_cards \in GridCardLists
    /\ policy = "none"
    /\ threshold = 0
    /\ letter_groups = <<>>
    /\ letter_mapping = <<>>

NextGrid ==
    \/ CreateSetLetterPlan
    \/ ViewGeneratePlan

SpecGrid == InitGrid /\ [][NextGrid]_vars

(***************************************************************************)
(* The calls of create_set_letter_plan on larger piles (SpecPack): letter  *)
(* counts far enough apart for bins with different remaining capacities.   *)
(***************************************************************************)
\* The names of the cards, one per first letter.
PackNames == <<<<"a", "b">>, <<"B">>, <<"Q", "i">>, <<"X">>, <<"Y">>>>

\* The quantities a card is owned in.
PackQuantities == {0, 4, 8, 14}

RECURSIVE PackCardsOf(_, _)
PackCardsOf(qty, i) ==
    IF i > Len(PackNames) THEN <<>>
    ELSE (IF qty[i] > 0 THEN <<SetCard(PackNames[i], qty[i], 0)>> ELSE <<>>)
         \o PackCardsOf(qty, i + 1)

PackCardLists == {PackCardsOf(qty, 1) : qty \in [1..Len(PackNames) -> PackQuantities]}

InitPack ==
    /\ IdleRest
    /\ IdleEngine
    /\ IdlePlan
    /\ IdleTab
    /\ set_cards \in PackCardLists
    /\ policy = "none"
    /\ threshold = 0
    /\ letter_groups = <<>>
    /\ letter_mapping = <<>>

SpecPack == InitPack /\ [][NextLetter]_vars

(***************************************************************************)
(* Claims about the progressive population (checked under Spec).           *)
(***************************************************************************)
\* The populations started so far (the dict of __init__ is none).
StartedRuns == {r \in 1..cur : runs[r].started}

\* A run that ended by itself: no longer active and never cancelled.
Completed(r) == ~runs[r].active /\ ~runs[r].cancelled

\* C1: a populate run that is never cancelled invokes on_finished exactly once,
\* after the last node has been materialized (also for an empty node list); a run
\* cancelled before its last chunk (superseded, or its tree cleaned up) never
\* invokes on_finished.
C1_OnFinishedExactlyOnce ==
    \A r \in StartedRuns :
        runs[r].on_finished =>
            /\ FinCount(r) <= 1
            /\ FinCount(r) = 1 =>
                   /\ DoneNodes(r) = runs[r].given
                   /\ runs[r].log[Len(runs[r].log)] = OnFinished
            /\ runs[r].cancelled => FinCount(r) = 0
            /\ Completed(r) => FinCount(r) = 1

C1_Witness ==
    /\ cur = 3
    /\ runs[2].on_finished /\ runs[2].cancelled /\ DoneNodes(2) # <<>> /\ FinCount(2) = 0
    /\ runs[3].on_finished /\ Len(runs[3].given) = 3 /\ runs[3].chunk_size = 2
    /\ Completed(3) /\ FinCount(3) = 1

C3_OldRunFrozen ==
    \A r \in 1..cur :
        r < Len(runs') => /\ runs'[r].log = runs[r].log
                          /\ ~runs'[r].active
                          /\ runs'[r].cancelled => FinCount(r) = 0

C3_SupersedeCancels ==
    /\ [](Cardinality({r \in 1..cur : runs[r].active}) <= 1)
    /\ [][C3_OldRunFrozen]_vars

C3_Witness ==
    /\ cur = 3
    /\ runs[2].cancelled
    /\ 0 < runs[2].current_index /\ runs[2].current_index < Len(runs[2].given)
    /\ runs[3].active /\ runs[3].current_index > 0

\* C4: once the owning container of a running populate has been cleaned up (the
\* tree itself, or the SetSorterView holding it, as navigation does when it
\* removes a view), no further chunk is processed and on_finished is not invoked.
C4_StepAfterCleanup ==
    removed => \A r \in 1..cur : runs'[r].log = runs[r].log

C4_NoChunkAfterOwnerCleanup == [][C4_StepAfterCleanup]_vars

(***************************************************************************)
(* Claims about create_sorting_plan (checked under SpecPlan).              *)
(***************************************************************************)
\* Every group of a forest, at every level.
RECURSIVE AllGroups(_)
AllGroups(gs) ==
    UNION {{gs[i]} \cup AllGroups(gs[i].sub_groups) : i \in 1..Len(gs)}

\* The card lists of a sequence of groups, one after the other.
RECURSIVE ConcatCards(_)
ConcatCards(gs) == IF gs = <<>> THEN <<>> ELSE Head(gs).cards \o ConcatCards(Tail(gs))

\* How often x occurs in sequence s.
Occurrences(s, x) == Cardinality({i \in 1..Len(s) : s[i] = x})

\* Same elements, each as often.
SameMultiset(s, t) ==
    /\ Len(s) = Len(t)
    /\ \A x \in Range(s) \cup Range(t) : Occurrences(s, x) = Occurrences(t, x)

\* The groups of a forest that have no sub-groups.
LeafGroups(gs) == {g \in AllGroups(gs) : g.sub_groups = <<>>}

\* C5: in every SortGroup of the plan, at every level, and in every letter pile,
\* total_count is the sum of the members' quantity and unsorted_count the sum of
\* max(0, quantity - sorted_count), whatever the cards' sorted counts are.
C5_CountInvariants ==
    /\ \A g \in AllGroups(plan) :
          /\ g.total_count = SumSeq([i \in 1..Len(g.cards) |-> all_cards[g.cards[i]].quantity])
          /\ g.unsorted_count =
                 SumSeq([i \in 1..Len(g.cards) |->
                            Max(0, all_cards[g.cards[i]].quantity - all_cards[g.cards[i]].sorted_count)])

\* C6: for a non-empty card list and a non-empty list of known criteria, the leaf
\* groups hold every input card exactly once, and the card lists of the children
\* of a group partition the card list of that group.
C6_PartitionCompleteness ==
    (all_cards # <<>> /\ sort_order # <<>> /\ plan_error = <<>>) =>
        /\ \A c \in 1..Len(all_cards) :
              Cardinality({g \in LeafGroups(plan) : c \in Range(g.cards)}) = 1
        /\ \A g \in LeafGroups(plan) : \A c \in Range(g.cards) : Occurrences(g.cards, c) = 1
        /\ SameMultiset(ConcatCards(plan), [i \in 1..Len(all_cards) |-> i])
        /\ \A g \in AllGroups(plan) :
              g.sub_groups # <<>> => SameMultiset(ConcatCards(g.sub_groups), g.cards)

C6_Witness ==
    /\ sort_order = <<"Set", "First Letter">>
    /\ Len(all_cards) = 3
    /\ \E g \in AllGroups(plan) : Len(g.sub_groups) = 2
    /\ \E g \in LeafGroups(plan) : g.group_name = <<"Unknown">>

\* C7: the top-level groups are in order of non-increasing unsorted_count.
C7_TopLevelOrdering ==
    \A i \in 1..(Len(plan) - 1) : plan[i].unsorted_count >= plan[i + 1].unsorted_count

C7_Witness ==
    /\ Len(plan) = 3
    /\ plan[1].unsorted_count > plan[2].unsorted_count
    /\ plan[2].unsorted_count > plan[3].unsorted_count
    /\ plan[1].cards = <<3>>

(***************************************************************************)
(* Claims about create_set_letter_plan (checked under SpecLetter).         *)
(***************************************************************************)
\* The per-letter counts of the set being sorted.
SetCounts == LetterCounts(set_cards)

\* The summed count of the letters of a label.
LabelCount(counts, label) == SumSeq([k \in 1..Len(label) |-> counts[label[k]]])

\* C8: for threshold > 0 the mapping of each policy has all 26 upper-case letters
\* as keys, and every letter with count zero maps to itself.
C8_MappingTotal ==
    (policy # "none" /\ threshold > 0) =>
        LET counts == SetCounts
        IN  /\ DOMAIN letter_mapping = Range(Letters)
            /\ \A l \in Range(Letters) : counts[l] = 0 => letter_mapping[l] = <<l>>

\* C9: under the optimal policy every label has at most 3 letters, the summed
\* count of a label of two or more letters does not exceed threshold, and a
\* pile's count exceeds threshold only for a single letter whose own count is
\* >= threshold.
C9_OptimalCapacity ==
    policy = "optimal" =>
        LET counts == SetCounts
        IN  \A l \in DOMAIN letter_mapping :
                LET label == letter_mapping[l]
                IN  /\ Len(label) <= 3
                    /\ Len(label) >= 2 => LabelCount(counts, label) <= threshold
                    /\ LabelCount(counts, label) > threshold =>
                           (label = <<l>> /\ counts[l] >= threshold)

C9_Witness ==
    /\ policy = "optimal"
    /\ LET counts == SetCounts
       IN  \E l, m \in DOMAIN letter_mapping :
               /\ Len(letter_mapping[l]) = 3
               /\ letter_mapping[m] = <<m>>
               /\ IsLow(counts[m], threshold)
               /\ LabelCount(counts, letter_mapping[l]) + counts[m] <= threshold

\* C10: under the adjacency policy every label is a run of alphabetically
\* consecutive letters in alphabetical order, and every letter between two
\* members of a pile belongs to that pile.
C10_AdjacentRuns ==
    policy = "grouped" =>
        \A l \in DOMAIN letter_mapping :
            LET label == letter_mapping[l]
            IN  /\ label # <<>>
                /\ \A k \in 1..(Len(label) - 1) :
                      LetterIndex(label[k + 1]) = LetterIndex(label[k]) + 1
                /\ \A m \in Range(Letters) :
                      (LetterIndex(label[1]) <= LetterIndex(m)
                         /\ LetterIndex(m) <= LetterIndex(label[Len(label)])) =>
                      (m \in DOMAIN letter_mapping /\ letter_mapping[m] = label)

C10_Witness ==
    /\ policy = "grouped"
    /\ "A" \in DOMAIN letter_mapping /\ letter_mapping["A"] = <<"A", "B">>
    /\ "Q" \in DOMAIN letter_mapping /\ letter_mapping["Q"] = <<"Q">>
    /\ "Z" \in DOMAIN letter_mapping /\ letter_mapping["Z"] = <<"X", "Y", "Z">>

\* C11: under the adjacency and optimal policies, whenever mapping[L] = P the
\* letter L occurs in P and every letter that occurs in P is also mapped to P.
C11_ConsistentPartition ==
    policy \in {"grouped", "optimal"} =>
        \A l \in DOMAIN letter_mapping :
            /\ l \in Range(letter_mapping[l])
            /\ \A m \in Range(letter_mapping[l]) :
                  m \in DOMAIN letter_mapping /\ letter_mapping[m] = letter_mapping[l]

C11_Witness ==
    /\ policy = "grouped"
    /\ threshold > 0
    /\ \E l \in DOMAIN letter_mapping : Len(letter_mapping[l]) = 3
    /\ \E l \in DOMAIN letter_mapping : Len(letter_mapping[l]) = 1

(***************************************************************************)
(* Claims about get_cards_at_path (checked under SpecPath).                *)
(***************************************************************************)
\* The group a path names when each element is matched at its own level:
\* <<G>>, or <<>> when some element matches no group at its level.
RECURSIVE GroupAtPath(_, _, _)
GroupAtPath(groups, path, i) ==
    LET found == FoundGroup(groups, path[i])
    IN  IF found = 0 THEN <<>>
        ELSE IF i = Len(path) THEN <<groups[found]>>
        ELSE GroupAtPath(groups[found].sub_groups, path, i + 1)

\* C12: get_cards_at_path returns an empty list and does not raise whenever some
\* segment of the path matches no group at its level, a path that continues
\* below the deepest level of the tree included.
C12_StalePathIsEmpty ==
    (/\ path_outcome # "none"
     /\ current_path # <<>>
     /\ GroupAtPath(plan, current_path, 1) = <<>>) =>
        (path_outcome = "returned" /\ cards_at_path = <<>>)

\* C13: given the names from the root down to a group G, get_cards_at_path
\* returns exactly G's cards, also when names of different levels coincide;
\* given the empty path it returns the cards of all top-level groups in order.
C13_PathReturnsGroupCards ==
    path_outcome # "none" =>
        IF current_path = <<>>
        THEN path_outcome = "returned" /\ cards_at_path = ExtendAll(plan)
        ELSE GroupAtPath(plan, current_path, 1) # <<>> =>
                 /\ path_outcome = "returned"
                 /\ cards_at_path = GroupAtPath(plan, current_path, 1)[1].cards

(***************************************************************************)
(* Claims about the errors of create_sorting_plan (checked under SpecPlan). *)
(***************************************************************************)
\* The criteria of the last call that are outside the library.
UnknownCriteria == {c \in Range(sort_order) : c \notin SortCriteria}

\* The call raised the validation error that names an unknown criterion of the list.
RaisedUnknownCriterion ==
    /\ Len(plan_error) = 2
    /\ plan_error[1] = "Unknown sort criterion: "
    /\ plan_error[2] \in UnknownCriteria

\* C14 (as stated): whenever the criteria list holds a name outside the library,
\* at whatever position, create_sorting_plan fails with the error naming it.
C14_UnknownCriterionRaises ==
    UnknownCriteria # {} => RaisedUnknownCriterion

\* C14 (amended): the same, for a call on a non-empty card list; on an empty
\* card list the call returns the empty plan before any criterion is looked at.
C14_UnknownCriterionRaisesOnCards ==
    /\ (UnknownCriteria # {} /\ all_cards # <<>>) => RaisedUnknownCriterion
    /\ (UnknownCriteria # {} /\ all_cards = <<>>) => (plan_error = <<>> /\ plan = <<>>)

C14_Witness ==
    /\ all_cards # <<>>
    /\ Len(sort_order) = 2
    /\ sort_order[1] \in SortCriteria
    /\ sort_order[2] \notin SortCriteria
    /\ RaisedUnknownCriterion

\* C15: create_sorting_plan given a criteria list in which a criterion occurs
\* twice reports a validation error instead of returning a tree (stated for a
\* non-empty card list, where the call has groups to return).
C15_DuplicateCriteriaRejected ==
    (/\ all_cards # <<>>
     /\ ValidateSortOrder(sort_order) = <<"Sort order contains duplicate criteria">>) =>
        (plan_error # <<>> /\ plan = <<>>)

\* C16: create_sorting_plan returns an empty list and raises no error whenever
\* the card list is empty or the criteria list is empty.
C16_EmptyInputsGiveEmptyPlan ==
    (plan_called /\ (all_cards = <<>> \/ sort_order = <<>>)) =>
        (plan = <<>> /\ plan_error = <<>>)

C16_Witness ==
    /\ plan_called
    /\ all_cards = <<>>
    /\ sort_order = <<"Set", "Bogus">>
    /\ plan = <<>>
    /\ plan_error = <<>>

(***************************************************************************)
(* Claims about sorted_count (checked under SpecProgress).                 *)
(***************************************************************************)
\* C17: in every reachable state, after any sequence of toggles, marks, resets,
\* imports and project loads, every card has 0 <= sorted_count <= quantity.
C17_SortedCountInRange ==
    \A i \in 1..Len(all_cards) :
        0 <= all_cards[i].sorted_count /\ all_cards[i].sorted_count <= all_cards[i].quantity

(***************************************************************************)
(* Claims about the cards the planner is given (checked under SpecPlan).   *)
(***************************************************************************)
\* A step in which create_sorting_plan is called leaves the card list as it was.
C18_CallKeepsCards == (~plan_called /\ plan_called') => all_cards' = all_cards

\* Every card of every group of the plan is one of the cards of all_cards.
C18_GroupsReferenceInput ==
    \A g \in AllGroups(plan) : \A k \in 1..Len(g.cards) : g.cards[k] \in 1..Len(all_cards)

ScenarioQXZ ==
    /\ policy = "grouped"
    /\ threshold = 20
    /\ \A l \in Range(Letters) :
          SetCounts[l] = (CASE l = "Q" -> 2 [] l = "X" -> 1 [] l = "Z" -> 1 [] OTHER -> 0)

\* The labels of the piles, in pile order.
PileNames == [k \in 1..Len(letter_groups) |-> letter_groups[k].group_name]

\* C19 (as stated): with counts Q:2, X:1, Z:1 and threshold 20 the adjacency
\* policy produces the single pile "QXZ" and maps Q, X and Z to it.
C19_SinglePileQXZ ==
    ScenarioQXZ =>
        /\ PileNames = << <<"Q", "X", "Z">> >>
        /\ \A l \in {"Q", "X", "Z"} :
              l \in DOMAIN letter_mapping /\ letter_mapping[l] = <<"Q", "X", "Z">>

\* C19 (amended): with these counts and threshold the adjacency policy produces
\* the three piles "Q", "X" and "Z", each letter mapped to itself: the letters
\* without cards between them end every run.
C19_ThreeSoloPiles ==
    ScenarioQXZ =>
        /\ PileNames = << <<"Q">>, <<"X">>, <<"Z">> >>
        /\ DOMAIN letter_mapping = {"Q", "X", "Z"}
        /\ \A l \in {"Q", "X", "Z"} : letter_mapping[l] = <<l>>

C19_Witness == ScenarioQXZ /\ Len(letter_groups) = 3

(***************************************************************************)
(* Claims about the criterion "Name" (checked under SpecPlan).             *)
(***************************************************************************)
\* The order of the characters of the names: '/', upper case, lower case.
CharOrder == <<"/">> \o Letters \o LowerLetters
CharCode(c) == CHOOSE k \in 1..Len(CharOrder) : CharOrder[k] = c

\* a <= b as strings.
RECURSIVE NameLeq(_, _)
NameLeq(a, b) ==
    IF a = <<>> THEN TRUE
    ELSE IF b = <<>> THEN FALSE
    ELSE IF Head(a) = Head(b) THEN NameLeq(Tail(a), Tail(b))
    ELSE CharCode(Head(a)) < CharCode(Head(b))

\* C20: create_sorting_plan called with the single criterion "Name" returns one
\* leaf group (is_card_leaf) per input card, in alphabetical order of the names.
C20_NameGivesLeafPerCard ==
    (plan_called /\ sort_order = <<"Name">> /\ all_cards # <<>>) =>
        /\ Len(plan) = Len(all_cards)
        /\ \A k \in 1..Len(plan) : plan[k].is_card_leaf /\ Len(plan[k].cards) = 1
        /\ \A i \in 1..Len(all_cards) : \E k \in 1..Len(plan) : plan[k].cards = <<i>>
        /\ \A k \in 1..(Len(plan) - 1) : NameLeq(plan[k].group_name, plan[k + 1].group_name)

(***************************************************************************)
(* Claims about the levels of the tree (checked under SpecPlan).           *)
(***************************************************************************)
\* The names of a list of groups, in order.
NamesOf(groups) == [k \in 1..Len(groups) |-> groups[k].group_name]

\* In the groups generated from order, and below them, the sub-groups of every
\* group stand in the order in which their keys are first met among its cards.
RECURSIVE SubGroupsInProjectionOrder(_, _)
SubGroupsInProjectionOrder(groups, order) ==
    Len(order) > 1 =>
        \A k \in 1..Len(groups) :
            /\ NamesOf(groups[k].sub_groups) = GroupKeys(all_cards, groups[k].cards, order[2])
            /\ SubGroupsInProjectionOrder(groups[k].sub_groups, Tail(order))

\* C21: in a tree generated from two or more criteria the sub-groups of every
\* group appear in projection iteration order, not re-ordered by unsorted_count.
C21_SubGroupsKeepProjectionOrder ==
    (plan_called /\ plan # <<>>) => SubGroupsInProjectionOrder(plan, sort_order)

(***************************************************************************)
(* Claims about degenerate letter plans (checked under SpecLetter).        *)
(***************************************************************************)
\* C22: for threshold <= 0, and for all-zero letter counts, the adjacency and
\* optimal plans return the identity mapping of the 26 letters.
C22_DegenerateInputsGiveIdentity ==
    (/\ policy \in {"grouped", "optimal"}
     /\ (threshold <= 0 \/ \A l \in Range(Letters) : SetCounts[l] = 0)) =>
        (/\ DOMAIN letter_mapping = Range(Letters)
         /\ \A l \in Range(Letters) : letter_mapping[l] = <<l>>)

NextLetterIsLow(label) ==
    LET last == LetterIndex(label[Len(label)])
    IN  last < Len(Letters) /\ IsLow(SetCounts[Letters[last + 1]], threshold)

C24_RefreshFlagReset == is_refreshing ~> ~is_refreshing

\* No timeout is pending: neither the population timer nor a single-shot timer.
NoEventPending ==
    /\ ~populate_timer
    /\ ~refresh_pending /\ ~regenerate_pending /\ ~completion_pending

\* C25: after every sorted-state change and every show-sorted change the current
\* view is regenerated: once no event is pending, the groups shown were
\* generated from the cards and the show-sorted state as they are now.
C25_QuiescentViewIsCurrent ==
    (~removed /\ NoEventPending) => generated_from = Shown

(***************************************************************************)
(* Claims about the ticks of a population (Spec, SpecRefresh).             *)
(***************************************************************************)
\* What a step adds to the log of run r.
Added(r) == SubSeq(runs'[r].log, Len(runs[r].log) + 1, Len(runs'[r].log))

\* C26: each tick of a running populate materializes exactly
\* min(chunk_size, remaining) nodes, the next ones of the list, and then yields;
\* a superseding populate or a cleanup acts between ticks only, so a chunk is
\* always whole, and no chunk of a cancelled run starts afterwards.
C26_ChunkStep ==
    \A r \in 1..cur :
        runs'[r].log # runs[r].log =>
            LET k == Min(runs[r].chunk_size, Len(runs[r].given) - runs[r].current_index)
            IN  /\ r = cur /\ runs[r].active /\ ~runs[r].cancelled
                /\ Len(runs') = Len(runs)
                /\ Added(r)[1] = Tick
                /\ Len(SelectSeq(Added(r), LAMBDA e : e.ev = "on_item")) = k
                /\ \A i \in 1..k :
                       Added(r)[1 + i] = OnItem(runs[r].given[runs[r].current_index + i])
                /\ runs'[r].current_index = runs[r].current_index + k

Count(log, e) == Cardinality({i \in DOMAIN log : log[i] = e})
Pos(log, e) ==
    IF Count(log, e) = 0 THEN 0
    ELSE CHOOSE i \in DOMAIN log : log[i] = e /\ \A j \in 1..(i - 1) : log[j] # e

\* The sort and the callback happen at most once per run, the sort first.
SortThenOnFinished(log) ==
    /\ Count(log, SortEv) <= 1
    /\ Count(log, OnFinished) <= 1
    /\ Count(log, OnFinished) = 1 =>
           Count(log, SortEv) = 1 /\ Pos(log, SortEv) < Pos(log, OnFinished)

\* C27, as stated: on the tick of the last chunk the engine sorts and then
\* invokes on_finished, at most once per run, and the run stops being active
\* only after on_finished has been invoked.
C27_IdleAfterOnFinished ==
    \A r \in StartedRuns :
        LET log == runs[r].log
        IN  /\ SortThenOnFinished(log)
            /\ (runs[r].on_finished /\ Count(log, Idle) = 1) =>
                   /\ Count(log, OnFinished) = 1
                   /\ Pos(log, OnFinished) < Pos(log, Idle)

\* C27, as the code has it: the tick of the last chunk first marks the run not
\* active; the sort and then on_finished follow in the same tick, each at most
\* once per run and as the last entries of its log; a run that is cancelled
\* has none of them.
C27_FinalizationOrder ==
    \A r \in StartedRuns :
        LET log  == runs[r].log
            tail == <<Idle, SortEv>> \o (IF runs[r].on_finished THEN <<OnFinished>> ELSE <<>>)
        IN  /\ SortThenOnFinished(log)
            /\ Count(log, Idle) = (IF Completed(r) THEN 1 ELSE 0)
            /\ Completed(r) =>
                   /\ Len(log) >= Len(tail)
                   /\ SubSeq(log, Len(log) - Len(tail) + 1, Len(log)) = tail
            /\ ~Completed(r) => Count(log, SortEv) = 0 /\ Count(log, OnFinished) = 0

C27_Witness ==
    \E r \in StartedRuns :
        /\ Completed(r) /\ runs[r].on_finished
        /\ Len(runs[r].given) = 3 /\ runs[r].chunk_size = 2
        /\ Pos(runs[r].log, Idle) < Pos(runs[r].log, SortEv)
        /\ runs[r].log[Len(runs[r].log)] = OnFinished

\* ceil(n / d) for d >= 1, and the ticks a run of n nodes takes.
CeilDiv(n, d) == (n + d - 1) \div d
TicksNeeded(r) == Max(1, CeilDiv(Len(runs[r].given), runs[r].chunk_size))

\* The cursor of every run is within its list; an active run has had fewer
\* ticks than it needs, a run that ended by itself exactly as many.
C28_TicksAndCursor ==
    \A r \in StartedRuns :
        /\ runs[r].chunk_size >= 1
        /\ 0 <= runs[r].current_index /\ runs[r].current_index <= Len(runs[r].given)
        /\ runs[r].active => Count(runs[r].log, Tick) < TicksNeeded(r)
        /\ Completed(r) => /\ Count(runs[r].log, Tick) = TicksNeeded(r)
                           /\ runs[r].current_index = Len(runs[r].given)

C28_CursorStep == \A r \in 1..cur : runs'[r].current_index >= runs[r].current_index

\* C28: with chunk_size >= 1 a populate run that is not cancelled terminates
\* under fair timer ticks, after exactly max(1, ceil(n / chunk_size)) ticks; its
\* cursor never decreases and never exceeds n.
C28_TerminatesAfterCeilTicks ==
    /\ []C28_TicksAndCursor
    /\ [][C28_CursorStep]_vars
    /\ \A r \in 2..(MaxRuns + 1) :
           (r <= cur /\ runs[r].active) ~> (r <= cur /\ (Completed(r) \/ runs[r].cancelled))

C28_Witness ==
    /\ cur = 3
    /\ Completed(2) /\ Len(runs[2].given) = 3 /\ runs[2].chunk_size = 2
    /\ Count(runs[2].log, Tick) = 2
    /\ Completed(3) /\ Len(runs[3].given) = 0 /\ Count(runs[3].log, Tick) = 1

(***************************************************************************)
(* Claims about the elements a population leaves (SpecTab).                *)
(***************************************************************************)
\* The elements under a parent, in child order, and their nodes.
ChildrenOf(parent) == SelectSeq(items, LAMBDA e : e.parent = parent)
NodesOf(elements) == [i \in DOMAIN elements |-> elements[i].node]

\* The nodes of a list, in the order sortByColumn leaves their elements in.
SortedNodes(nodes) ==
    NodesOf(SortItems([i \in DOMAIN nodes |-> [run |-> 0, node |-> nodes[i], parent |-> Root]]))

\* C29: when a population has reached on_finished, the elements under its
\* target parent are exactly the elements of that run's nodes: nothing that an
\* earlier, cancelled run materialized is left next to them.
C29_TargetHoldsOwnNodesOnly ==
    (cur > 1 /\ Count(populate_state.log, OnFinished) = 1) =>
        LET children == ChildrenOf(populate_state.parent_item)
        IN  /\ \A i \in DOMAIN children : children[i].run = cur
            /\ NodesOf(children) = SortedNodes(populate_state.given)

\* A refresh superseded the first population of a tree after its first chunk,
\* and a population of the children of a pile superseded a generate_plan.
C29_Witness ==
    /\ cur = 3
    /\ runs[2].cancelled /\ DoneNodes(2) # <<>>
    /\ Count(runs[3].log, OnFinished) = 1 /\ Len(runs[3].given) = 3
    /\ runs[3].closure \in {"refresh", "children"}

(***************************************************************************)
(* Claims about the groups of a plan (SpecPlan).                           *)
(***************************************************************************)
\* The groups of one level, built for the criteria order (its first is the
\* criterion of the level), and the levels below them.
RECURSIVE LevelsWellFormed(_, _, _)
LevelsWellFormed(store, groups, order) ==
    /\ \A i \in DOMAIN groups :
           LET g == groups[i]
           IN  /\ g.cards # <<>>
               /\ \A c \in Range(g.cards) : SortFunc(order[1], store[c]) = g.group_name
               /\ g.has_sub_groups = (Len(order) > 1)
               /\ IF g.has_sub_groups
                  THEN /\ g.sub_groups # <<>>
                       /\ LevelsWellFormed(store, g.sub_groups, Tail(order))
                  ELSE g.sub_groups = <<>>
    /\ \A i, j \in DOMAIN groups : i # j => groups[i].group_name # groups[j].group_name

\* C30: in every group at level k of a tree returned by create_sorting_plan each
\* member card's projection under the k-th criterion is the group's name,
\* sibling groups have distinct names, no group is empty, and a group has
\* sub-groups exactly when criteria remain after level k.
C30_GroupsMatchCriteria ==
    (plan_called /\ plan_error = <<>> /\ plan # <<>>) =>
        LevelsWellFormed(all_cards, plan, sort_order)

C30_Witness ==
    /\ plan_called /\ plan_error = <<>>
    /\ Len(sort_order) = 2 /\ Len(plan) >= 2
    /\ \E i \in DOMAIN plan : Len(plan[i].cards) >= 2 /\ Len(plan[i].sub_groups) >= 2

(***************************************************************************)
(* Claims about the optimal policy's packing (SpecLetter).                 *)
(***************************************************************************)
\* The low letters in the order they are placed: decreasing count, letters of
\* equal count in alphabetical order.
PlacementOrder(counts, t) ==
    SortByCountDescending(SelectSeq(Letters, LAMBDA l : IsLow(counts[l], t)), counts)

\* The position of a letter in the placement order.
PlacedAt(order, l) == CHOOSE k \in 1..Len(order) : order[k] = l

\* The letters of the bin of letter l that were placed before position k.
PlacedBefore(mapping, order, l, k) ==
    {m \in Range(mapping[l]) : PlacedAt(order, m) < k}

\* The placement of the k-th letter follows best fit: it joined a bin that
\* qualified and left the least space, the earliest-opened among equals, and it
\* opened a new bin only when no bin qualified.
PlacedByBestFit(mapping, order, counts, t, k) ==
    LET l         == order[k]
        sum(S)    == SumSeq([i \in 1..Len(order) |-> IF order[i] \in S THEN counts[order[i]] ELSE 0])
        bin(o)    == PlacedBefore(mapping, order, o, k)
        opened(o) == \A m \in Range(mapping[o]) : PlacedAt(order, o) <= PlacedAt(order, m)
        openers   == {o \in Range(order) : PlacedAt(order, o) < k /\ opened(o)}
        fits(o)   == Cardinality(bin(o)) < 3 /\ sum(bin(o)) + counts[l] <= t
        space(o)  == t - (sum(bin(o)) + counts[l])
        joined    == bin(l)
    IN  IF joined = {}
        THEN \A o \in openers : ~fits(o)
        ELSE \E o \in openers :
                /\ bin(o) = joined
                /\ fits(o)
                /\ \A c \in openers :
                       fits(c) => \/ space(o) < space(c)
                                  \/ space(o) = space(c) /\ PlacedAt(order, o) <= PlacedAt(order, c)

\* C31: the optimal policy places the low letters (0 < count < threshold) in
\* decreasing count order, each into the bin that leaves the least remaining
\* capacity among the bins with fewer than 3 letters whose sum stays <= threshold,
\* the earliest-opened bin on ties, and opens a new bin only when none qualifies;
\* each bin's label lists its letters alphabetically.
C31_BestFitDecreasing ==
    policy = "optimal" =>
        LET counts == SetCounts
            order  == PlacementOrder(counts, threshold)
        IN  /\ \A k \in 1..Len(order) :
                   /\ \A j \in 1..Len(order) : j < k => counts[order[j]] >= counts[order[k]]
                   /\ order[k] \in Range(letter_mapping[order[k]])
                   /\ Range(letter_mapping[order[k]]) \subseteq Range(order)
                   /\ \A m \in Range(letter_mapping[order[k]]) :
                          letter_mapping[m] = letter_mapping[order[k]]
                   /\ PlacedByBestFit(letter_mapping, order, counts, threshold, k)
            /\ \A l \in Range(order) :
                   \A i, j \in 1..Len(letter_mapping[l]) :
                       i < j => LetterIndex(letter_mapping[l][i]) < LetterIndex(letter_mapping[l][j])

\* Two bins are open when a letter is placed, the earlier one with room to
\* spare, the later one filled exactly by the letter: it joins the later one.
C31_Witness ==
    /\ policy = "optimal" /\ threshold = DefaultThreshold
    /\ SetCounts["A"] = 14 /\ SetCounts["B"] = 8 /\ SetCounts["Q"] = 4 /\ SetCounts["X"] = 8
    /\ SetCounts["Y"] = 0
    /\ letter_mapping["A"] = <<"A">>
    /\ letter_mapping["Q"] = <<"B", "Q", "X">>

(***************************************************************************)
(* Claims about the piles of a letter plan (SpecLetter).                   *)
(***************************************************************************)
\* How many times card c is listed in the piles.
TimesPiled(c) ==
    SumSeq([g \in 1..Len(letter_groups) |->
               Cardinality({k \in 1..Len(letter_groups[g].cards) : letter_groups[g].cards[k] = c})])

\* C32: in every letter plan (simple, adjacency, optimal) each card with a
\* non-empty name other than 'N/A' is in exactly one pile, the pile the mapping
\* assigns to the upper-cased first character of its name; a nameless card is in
\* no pile and contributes to no letter count.
C32_EachNamedCardInItsPile ==
    policy # "none" =>
        /\ \A c \in 1..Len(set_cards) :
               IF HasName(set_cards[c])
               THEN /\ TimesPiled(c) = 1
                    /\ \A g \in 1..Len(letter_groups) :
                           c \in Range(letter_groups[g].cards) =>
                               LET first_letter == Upper(set_cards[c].name[1])
                               IN  letter_groups[g].group_name =
                                       IF first_letter \in DOMAIN letter_mapping
                                       THEN letter_mapping[first_letter]
                                       ELSE <<first_letter>>
               ELSE TimesPiled(c) = 0
        /\ SumSeq([g \in 1..Len(letter_groups) |-> letter_groups[g].total_count])
               = SumSeq([c \in 1..Len(set_cards) |->
                            IF HasName(set_cards[c]) THEN set_cards[c].quantity ELSE 0])

\* A plan over a nameless card and a card whose name starts with a lower-case
\* letter, which is in a pile of two letters.
C32_Witness ==
    /\ policy = "grouped"
    /\ \E c \in 1..Len(set_cards) : ~HasName(set_cards[c])
    /\ \E c \in 1..Len(set_cards), g \in 1..Len(letter_groups) :
           /\ set_cards[c].name = <<"a", "b">>
           /\ c \in Range(letter_groups[g].cards)
           /\ letter_groups[g].group_name = <<"A", "B">>

(***************************************************************************)
(* Claims about the piles of the adjacency policy (SpecLetter).            *)
(***************************************************************************)
\* Every letter of a combined label is low, the letters before the last one of
\* a label total less than threshold, and a letter with count >= threshold is a
\* pile of its own.
AdjacentPilesBounded(counts) ==
    \A l \in DOMAIN letter_mapping :
        LET label == letter_mapping[l]
        IN  /\ Len(label) >= 2 =>
                   \A k \in 1..Len(label) : 0 < counts[label[k]] /\ counts[label[k]] < threshold
            /\ LabelCount(counts, SubSeq(label, 1, Len(label) - 1)) < threshold
            /\ counts[l] >= threshold => label = <<l>>

\* C33 as stated: under the adjacency policy every letter in a pile of two or
\* more letters has a count strictly between 0 and threshold, in every pile the
\* counts of all letters but the last one sum to less than threshold, every
\* letter with count >= threshold is a pile of its own, and every pile's total
\* is below 2 x threshold.
C33_EveryPileBelowTwiceThreshold ==
    (policy = "grouped" /\ threshold > 0) =>
        LET counts == SetCounts
        IN  /\ AdjacentPilesBounded(counts)
            /\ \A l \in DOMAIN letter_mapping :
                   LabelCount(counts, letter_mapping[l]) < 2 * threshold

\* C33, amended: the same, with the total below 2 x threshold for the piles of
\* two or more letters only; a pile of one letter holds all of its cards.
C33_CombinedPilesBelowTwiceThreshold ==
    (policy = "grouped" /\ threshold > 0) =>
        LET counts == SetCounts
        IN  /\ AdjacentPilesBounded(counts)
            /\ \A l \in DOMAIN letter_mapping :
                   Len(letter_mapping[l]) >= 2 =>
                       LabelCount(counts, letter_mapping[l]) < 2 * threshold

\* X and Y are combined into a pile that reaches threshold, Z has threshold
\* cards and is on its own.
C33_Witness ==
    /\ policy = "grouped" /\ threshold = 2
    /\ SetCounts["X"] = 1 /\ SetCounts["Y"] = 1 /\ SetCounts["Z"] = 2
    /\ letter_mapping["X"] = <<"X", "Y">>
    /\ letter_mapping["Z"] = <<"Z">>

(***************************************************************************)
(* Claims about the view's own letter grouping (SpecGrid).                 *)
(***************************************************************************)
\* The view and the planner were asked for the same policy and threshold.
SamePolicyAndThreshold ==
    /\ policy # "none"
    /\ view_policy = policy
    /\ policy # "simple" => view_threshold = threshold

\* C34: for every card list and threshold, the pile assignment computed inside
\* SetSorterView (the inline adjacency scan of generate_plan, and
\* _create_optimal_letter_grouping with its own _optimal_bin_packing) places
\* every card in the pile with the same label as create_set_letter_plan does
\* with the same policy and threshold.
C34_ViewPilesMatchPlanner ==
    SamePolicyAndThreshold =>
        \A c \in 1..Len(set_cards) :
            HasName(set_cards[c]) =>
                PileKey(view_mapping, Upper(set_cards[c].name[1])) = CardPileKey(letter_mapping, set_cards[c])

\* Both have grouped the cards under the adjacency policy: a low letter followed
\* by a letter without cards, and a combined pile.
C34_Witness ==
    /\ SamePolicyAndThreshold /\ policy = "grouped" /\ threshold = 3
    /\ SetCounts["A"] = 0 /\ SetCounts["B"] = 1 /\ SetCounts["Y"] = 1 /\ SetCounts["Z"] = 2
    /\ view_mapping["B"] = <<"B">>
    /\ view_mapping["Z"] = <<"Y", "Z">>

(***************************************************************************)
(* Claims about the check state of materialized elements (SpecCheck).      *)
(***************************************************************************)
\* The elements a step adds for the nodes of the chunk it processes.
Materialized ==
    IF runs'[cur].current_index > runs[cur].current_index /\ Len(runs') = Len(runs)
    THEN LET chunk == SubSeq(runs[cur].given, runs[cur].current_index + 1,
                             runs'[cur].current_index)
         IN  {e \in Range(items') : e.run = cur /\ e.node \in Range(chunk)}
    ELSE {}

\* The node has at least one member and all of its members are fully sorted.
HasMembersAllSorted(node) ==
    /\ Len(node_cards[node]) >= 1
    /\ \A c \in Range(node_cards[node]) : IsFullySorted(all_cards[c])

\* C35: each time a node is materialized its element is checked exactly when the
\* node has at least one member and all its members are fully sorted at that
\* time, and the element is hidden exactly when it is checked and show-sorted is
\* off; this is computed anew on every materialization.
C35_MaterializedStep ==
    /\ runs'[cur].current_index > runs[cur].current_index /\ Len(runs') = Len(runs)
           => Cardinality(Materialized) = runs'[cur].current_index - runs[cur].current_index
    /\ \A e \in Materialized :
           /\ e.checked = HasMembersAllSorted(e.node)
           /\ e.hidden = (e.checked /\ ~show_sorted)

UnknownPositions == {i \in 1..Len(validate_order) : validate_order[i] \notin SortCriteria}

\* No name occurs twice in validate_order.
NoDuplicates ==
    \A i, j \in 1..Len(validate_order) : validate_order[i] = validate_order[j] => i = j

\* C36: validate_sort_order returns (True, None) exactly when the list is
\* non-empty, every name is one of the eight criteria of the library and no name
\* occurs twice; otherwise it returns False with a message, which names the
\* first unknown criterion when there is one.  It never raises; the call has
\* no effect but its result.
C36_ValidateSortOrder ==
    validate_result.outcome # "none" =>
        /\ validate_result.outcome = "returned"
        /\ validate_result.is_valid =
               (validate_order # <<>> /\ UnknownPositions = {} /\ NoDuplicates)
        /\ validate_result.is_valid => validate_result.message = <<>>
        /\ ~validate_result.is_valid => validate_result.message # <<>>
        /\ UnknownPositions # {} =>
               LET first == CHOOSE i \in UnknownPositions : \A j \in UnknownPositions : i <= j
               IN  validate_result.message = <<"Unknown criterion: ", validate_order[first]>>

\* An order with a known name followed by two unknown ones: the message names
\* the first of the two.
C36_Witness ==
    /\ validate_result.outcome = "returned"
    /\ validate_order = <<"Set", "Other", "Bogus">>
    /\ ~validate_result.is_valid
    /\ validate_result.message = <<"Unknown criterion: ", "Other">>

(***************************************************************************)
(* Claims about mark_item_as_sorted (SpecProgress).                        *)
(***************************************************************************)
\* The step turns the cards of one item from all fully sorted to sorted_count 0,
\* or from not all fully sorted to sorted_count = quantity, and changes nothing
\* else of the card list.
FlipsOneItem ==
    /\ Len(all_cards') = Len(all_cards)
    /\ \E cards \in ItemCards(all_cards) :
        LET was_sorted == \A i \in cards : IsFullySorted(all_cards[i])
        IN  /\ cards # {}
            /\ \A i \in cards :
                   all_cards'[i].sorted_count = IF was_sorted THEN 0 ELSE all_cards[i].quantity
            /\ (\A i \in cards : IsFullySorted(all_cards'[i])) = ~was_sorted
            /\ \A i \in 1..Len(all_cards) :
                   /\ all_cards'[i].quantity = all_cards[i].quantity
                   /\ [all_cards'[i] EXCEPT !.sorted_count = 0] = [all_cards[i] EXCEPT !.sorted_count = 0]
                   /\ i \notin cards => all_cards'[i] = all_cards[i]

\* C37: mark_item_as_sorted on an item with at least one card flips whether all
\* of the item's cards are fully sorted: if all were fully sorted every
\* sorted_count becomes 0, otherwise every sorted_count becomes its card's
\* quantity; quantities and all cards outside the item are unchanged.
C37_MarkStep == MarkItemAsSorted => FlipsOneItem

C37_MarkFlipsItem == [][C37_MarkStep]_vars

\* A group was marked while another card stayed unsorted: one card is sorted in
\* full, one is not sorted at all, and the refresh the handler schedules is due.
C37_Witness ==
    /\ refresh_pending
    /\ \E i, j \in 1..Len(all_cards) :
           /\ all_cards[i].quantity = 2 /\ all_cards[i].sorted_count = 2
           /\ all_cards[j].sorted_count = 0

(***************************************************************************)
(* Claims about the CSV import (SpecImport).                               *)
(***************************************************************************)
\* The import has produced its cards: finished(cards) was emitted.
Produced == \E k \in 1..Len(emitted) : emitted[k].signal = "finished"

\* The quantity the rows of the file carry for an identifier: rows without a
\* positive integer quantity add nothing.
RowsQuantity(scryfall_id) ==
    SumSeq([r \in 1..Len(csv_rows) |->
               IF /\ Strip(csv_rows[r].scryfall_id) = scryfall_id
                  /\ csv_rows[r].quantity.is_int
                  /\ csv_rows[r].quantity.value > 0
               THEN csv_rows[r].quantity.value ELSE 0])

\* C38: a CSV import produces at most one card per distinct identifier, and each
\* produced card's quantity equals the sum of the quantities of all rows
\* carrying that identifier; rows with a missing identifier or a non-positive or
\* non-numeric quantity add nothing.
C38_OneCardPerIdentifier ==
    Produced =>
        /\ \A i, j \in 1..Len(import_cards) :
               import_cards[i].scryfall_id = import_cards[j].scryfall_id => i = j
        /\ \A i \in 1..Len(import_cards) :
               /\ import_cards[i].scryfall_id # <<>>
               /\ import_cards[i].quantity = RowsQuantity(import_cards[i].scryfall_id)
               /\ import_cards[i].quantity > 0

\* Two rows carry the identifier 'a' (one of them padded), a third row has no
\* usable quantity: one card of quantity 3 is produced.
C38_Witness ==
    /\ Produced
    /\ Len(csv_rows) = 3
    /\ \E r \in 1..3 : csv_rows[r].scryfall_id = <<"a", " ">> /\ csv_rows[r].quantity.value = 2
    /\ \E r \in 1..3 : csv_rows[r].scryfall_id = <<"a">> /\ csv_rows[r].quantity.value = 1
    /\ \E r \in 1..3 : csv_rows[r].scryfall_id = <<"b">> /\ ~csv_rows[r].quantity.is_int
    /\ import_cards = <<[scryfall_id |-> <<"a">>, quantity |-> 3]>>

\* C39: each run of process() emits at most one terminal signal (finished or
\* error, never both), exactly one when cancel() is never called, and no
\* finished signal once cancel() has been called, whatever the interleaving of
\* cancel() with the worker's loops.
C39_OneTerminalSignal ==
    /\ Len(emitted) <= 1
    /\ (worker_pc = "done" /\ ~is_cancelled) => Len(emitted) = 1
    /\ \A k \in 1..Len(emitted) : emitted[k].signal = "finished" => ~emitted[k].cancelled
====
